---- MODULE Spec2Model ----
\* Quota gate (src/src/rateLimit.js), the paginated traversals of
\* UserManager (src/src/userManager.js) that call it, getTeamsForUser, and
\* the cache providers (src/src/storageTableclient.js,
\* src/src/userAccountprovider.js).
\*
\* Three specifications share the state: Spec / LiveSpec for the gate and
\* the traversals, TeamsSpec for getTeamsForUser, ProviderSpec for the
\* providers; each holds the others' variables still.
\*
\* One UserManager, one caller, JavaScript's single thread: every action is
\* the piece of code that runs between two awaits.  The remote side (GitHub)
\* is the environment: it owns the remaining-call counter `quota`, answers
\* or fails each request, and decides what every page holds.
EXTENDS Integers, Sequences, FiniteSets, TLC

----------------------------------------------------------------------------
\* Bounds of the exploration

MaxRemaining == 14   \* remaining-call counts up to here are explored one by one
MaxTotal == 301      \* largest total count a page reports
MaxPages == 3        \* longest traversal, in pages
MaxItems == 2        \* a page is empty or holds this many items
MaxProbes == 3       \* the probe / sleep counters saturate here
MaxOrgPages == 2     \* longest organization listing of getTeamsForUser, in pages
MaxOrgs == 2         \* most organizations on one such page
MaxUsers == 2        \* logins known to the enterprise and the cache
MaxTime == 3         \* the clock stops here
MaxBudget == 2       \* longest slice a refresh pass is tried with
MaxBatch == 1        \* most entities the table takes in one transaction
MaxAuditPages == 3   \* largest `pages` getLast50PagesOfAuditLog is given

----------------------------------------------------------------------------
\* Program constants

PageSize == 100      \* page_size, `first: 100`, `totalCount / 100`
Margin == 10         \* `totalCalls + 10`
InitCalls == 100     \* `hold_until_rate_limit_success(100, this.token)`
BackoffMs == 60000   \* `setTimeout(resolve, 60000)`
Floor == 5           \* `rateLimitRemaining < 5`
LowWater == 25       \* `remaining < 25 && sleepOnRateLimit`
AuditAssumed == 1750 \* `this.rateLimitRemaining = 1750`
UserAssumed == 1000  \* `this.rateLimitRemaining = 1000`
FreshDays == 3       \* `diffDays > 3`
DayMs == 86400000    \* `1000 * 60 * 60 * 24`

----------------------------------------------------------------------------
\* JavaScript values
\*
\* Numbers are integers plus NaN; the counts of the program are never
\* negative, so NaN is written -1 and `undefined` (an absent field) -2.
\* Every arithmetic operator below treats them as JavaScript does.

NaN == -1
Undefined == -2
Null == -3

\* The quota snapshot of a response: `response.headers`.
Headers(r) == [type |-> "object", remaining |-> r]
\* A number handed to a function that also accepts objects.
Num(n) == [type |-> "number", val |-> n]
\* An omitted argument.
NoArg == [type |-> "undefined"]

\* ToNumber of a tagged value: a plain object becomes "[object Object]",
\* which is not numeric.
ToNumber(v) == IF v.type = "number" THEN v.val ELSE NaN

\* Variant: an absent count read as 0 (`totalCount || 0`).
NumOfOrZero(x) == IF x = Undefined THEN 0 ELSE x

\* ToNumber of a plain count that may be absent.
NumOf(x) == IF x = Undefined THEN NaN ELSE x

\* a < b on numbers: false as soon as one side is NaN.
JsLess(a, b) == a # NaN /\ b # NaN /\ a < b

\* a > b on numbers.
JsGreater(a, b) == JsLess(b, a)

\* if (v) ... : an object is truthy, undefined is not.
Truthy(v) == v.type = "object"

\* Math.ceil(a / b) for b > 0.
MathCeilDiv(a, b) == IF a = NaN THEN NaN ELSE (a + b - 1) \div b

\* a + b on numbers.
JsAdd(a, b) == IF a = NaN \/ b = NaN THEN NaN ELSE a + b

SatInc(n) == IF n < MaxProbes THEN n + 1 ELSE n

----------------------------------------------------------------------------
\* Values the environment may produce

RemainingValues == {0} \cup (Margin .. MaxRemaining) \cup {InitCalls - 1, InitCalls}

TotalCounts == {t \in 0 .. MaxTotal : t % PageSize \in {0, 1}}

GraphQL == {"getAllOrganizationsInEnterprise", "getMoreTeamsForUser"}
Rest == {"getConsumedLicenses", "getCopilotSeats"}
Kinds == GraphQL \cup Rest

\* The items of page p, k of them: each item is named by its page and slot.
ItemsOf(p, k) == [i \in 1 .. k |-> <<p, i>>]

\* What the remote may answer to the request for page p.  A page that
\* reports a total is consistent with it: there is a next page exactly when
\* the total exceeds what the pages so far can hold.
ConsistentPage(p, pg) ==
  /\ pg.total # Undefined => (pg.hasNext <=> pg.total > PageSize * p)
  /\ p >= MaxPages => ~pg.hasNext

PageResponses(p) ==
  { pg \in [items : {ItemsOf(p, k) : k \in {0, MaxItems}},
            total : TotalCounts \cup {Undefined},
            hasNext : BOOLEAN] : ConsistentPage(p, pg) }

----------------------------------------------------------------------------
\* State

VARIABLES
  graphql,         \* this.graphql is set: #init has run
  quota,           \* the remote's remaining-call count (x-ratelimit-remaining)
  fn,              \* the traversal in progress, "none" between calls
  tPc,             \* where it stands: idle, fetch, gate, done, failed
  all,             \* `all` / `users` / `seats`: the items collected so far
  page_check_done, \* the traversal's flag of the same name
  pageNo,          \* pages received by this traversal
  page,            \* total and hasNext of the last page received
  first,           \* total and hasNext of the first page received
  anyTotal,        \* some page of this traversal reported a total count
  served,          \* the pages the remote has served, in order
  result,          \* what the call gave its caller
  errorsLogged,    \* core.error calls made by the traversal's catch
  gateLog,         \* the gate invocations made during this call
  pages,           \* getLast50PagesOfAuditLog's argument of the same name
  gPc,             \* the gate: idle, probe, sleep, returned
  callsNeeded,     \* the gate's first argument
  initialHeaders,  \* the gate's third argument
  remaining,       \* what the last probe gave
  probeFailed,     \* the last probe's request threw
  probes,          \* probes answered in this gate call (saturating)
  sleeps,          \* backoff sleeps started in this gate call (saturating)
  timer,           \* the pending setTimeout, in milliseconds, 0 when none
  teamsPc,         \* getTeamsForUser: idle, init, fetch, more, done
  userWithOrgs,    \* `userWithOrgs.orgs`: the organizations collected so far
  nodes,           \* organizations of the current page not yet handled
  hasMoreOrgs,     \* pageInfo.hasNextPage of the current page
  orgPageNo,       \* organization pages received by this call
  fetchFailed,     \* a request made for this call has thrown
  teamsErrors,     \* core.error calls made by getTeamsForUser's catch
  teamsResult,     \* what getTeamsForUser gave its caller
  provider,        \* the class of the provider object
  tableClient,     \* this.tableClient is set: a cache is configured
  sliceLen,        \* the length refreshUserData cuts its selection to
  rateLimitRemaining, \* this.rateLimitRemaining
  loaded,          \* this.users is set: initialize has read the table
  users,           \* this.users
  store,           \* the table: the entity of each login, if any
  now,             \* the clock
  op,              \* the provider call in progress, "none" between calls
  pPc,             \* where it stands: idle, fetch, sleep, upsert, done
  key,             \* the login the pending request is for
  pos,             \* refreshUserData: place in usersToCheck of that login
  fetched,         \* what the manager's call gave
  stamp,           \* `new Date().toISOString()` of the pending upsert
  ptimer,          \* the manager's pending setTimeout, 0 when none
  pResult,         \* what the provider call gave its caller
  atStart,         \* this.users as the call found it
  fetchLog,        \* logins the call asked the remote for, in order
  upsertLog,       \* logins the call has upserted, in order
  failLog,         \* logins whose fetch or upsert threw during the call
  warnings,        \* core.warning calls made during the call
  pErrors,         \* core.error calls made by the provider during the call
  insertLog,       \* the key lists given to bulkInsert during the call
  failedCall,      \* the table call of initialize that threw, if one did
  rPc,             \* buildReport: the call it awaits, "none" when no run
  licensed,        \* buildReport's `users`: the logins the licences call gave
  report,          \* buildReport's `report`: the logins of its entries
  providerCalls,   \* the provider methods buildReport has awaited, in order
  cancelled        \* the process has been told to stop

tvars == <<fn, tPc, all, page_check_done, pageNo, page, first, anyTotal, served,
           result, errorsLogged, gateLog, pages>>
gvars == <<gPc, callsNeeded, initialHeaders, remaining, probeFailed, probes,
           sleeps, timer>>
uvars == <<teamsPc, userWithOrgs, nodes, hasMoreOrgs, orgPageNo, fetchFailed,
           teamsErrors, teamsResult>>
pvars == <<provider, tableClient, sliceLen, rateLimitRemaining, loaded, users, store,
           now, op, pPc, key, pos, fetched, stamp, ptimer, pResult, atStart,
           fetchLog, upsertLog, failLog, warnings, pErrors, insertLog,
           failedCall>>
rvars == <<rPc, licensed, report, providerCalls>>
\* What the manager's traversals and the gate never touch.
others == <<uvars, pvars, rvars, cancelled>>
vars == <<graphql, quota, tvars, gvars, others>>

NoPage == [total |-> Undefined, hasNext |-> FALSE]
NoResult == [kind |-> "none", value |-> <<>>]

\* The elements of a list.
Range(log) == {log[i] : i \in 1 .. Len(log)}

\* Flatten the served pages.
RECURSIVE Concat(_)
Concat(ps) == IF ps = <<>> THEN <<>> ELSE Head(ps) \o Concat(Tail(ps))

\* No traversal in progress.
TraversalIdle ==
  /\ fn = "none"
  /\ tPc = "idle"
  /\ all = <<>>
  /\ page_check_done = FALSE
  /\ pageNo = 0
  /\ page = NoPage
  /\ first = NoPage
  /\ anyTotal = FALSE
  /\ served = <<>>
  /\ result = NoResult
  /\ errorsLogged = 0
  /\ gateLog = <<>>
  /\ pages = 0

\* The call frame of a traversal is gone.
ResetTraversal ==
  /\ fn' = "none"
  /\ tPc' = "idle"
  /\ all' = <<>>
  /\ page_check_done' = FALSE
  /\ pageNo' = 0
  /\ page' = NoPage
  /\ first' = NoPage
  /\ anyTotal' = FALSE
  /\ served' = <<>>
  /\ result' = NoResult
  /\ errorsLogged' = 0
  /\ gateLog' = <<>>
  /\ pages' = 0

\* No gate call in progress.
GateIdle ==
  /\ gPc = "idle"
  /\ callsNeeded = 0
  /\ initialHeaders = NoArg
  /\ remaining = Undefined
  /\ probeFailed = FALSE
  /\ probes = 0
  /\ sleeps = 0
  /\ timer = 0

\* The call frame of the gate is gone.
ResetGate ==
  /\ gPc' = "idle"
  /\ callsNeeded' = 0
  /\ initialHeaders' = NoArg
  /\ remaining' = Undefined
  /\ probeFailed' = FALSE
  /\ probes' = 0
  /\ sleeps' = 0
  /\ timer' = 0

----------------------------------------------------------------------------
\* The quota gate: hold_until_rate_limit_success, callGitHubAPI,
\* waitIfNotEnoughCalls, getRateLimit

\* Variant: the comparison written `<=`.
WaitIfNotEnoughCallsLe(v, cn) ==
  ~(ToNumber(v) # NaN /\ cn # NaN /\ ToNumber(v) <= cn)

\* Variant: the loop gives up after its second probe.
WaitIfNotEnoughCallsCapped(v, cn) == ~JsLess(ToNumber(v), cn) \/ probes >= 1

\* waitIfNotEnoughCalls(remaining, callsNeeded): TRUE when it returns true
\* at once, FALSE when it sleeps and returns false.
WaitIfNotEnoughCalls(v, cn) == ~JsLess(ToNumber(v), cn)

\* The x-ratelimit-remaining header of a response sent while the remote's
\* counter stands at q: its decimal digits, most significant first.
RECURSIVE RemainingHeader(_)
RemainingHeader(q) ==
  IF q < 10 THEN <<q>> ELSE Append(RemainingHeader(q \div 10), q % 10)

\* parseInt(text, 10): NaN when no digit leads, else the value of the digits.
RECURSIVE ParseInt(_)
ParseInt(ds) ==
  IF ds = <<>> THEN NaN
  ELSE IF Len(ds) = 1 THEN ds[1]
  ELSE 10 * ParseInt(SubSeq(ds, 1, Len(ds) - 1)) + ds[Len(ds)]

\* getRateLimit(token) on a response.
GetRateLimit(q) == ParseInt(RemainingHeader(q))

\* Variant: the catch returns nothing usable as a count.
GetRateLimitOnErrorNaN == NaN

\* getRateLimit(token) when the request throws.
GetRateLimitOnError == 0

\* hold_until_rate_limit_success up to its first await: the state the gate
\* is left in.
HoldEntry(cn, ih) ==
  IF Truthy(ih)
    THEN IF WaitIfNotEnoughCalls(ih, cn) THEN "returned" ELSE "sleep"
    ELSE "probe"

\* The call itself, as part of the caller's step.
InvokeGate(cn, ih) ==
  /\ gPc' = HoldEntry(cn, ih)
  /\ callsNeeded' = cn
  /\ initialHeaders' = ih
  /\ remaining' = Undefined
  /\ probeFailed' = FALSE
  /\ probes' = 0
  /\ sleeps' = IF gPc' = "sleep" THEN 1 ELSE 0
  /\ timer' = IF gPc' = "sleep" THEN BackoffMs ELSE 0

\* callGitHubAPI's loop body once getRateLimit has given r.
AfterProbe(r, failed) ==
  /\ remaining' = r
  /\ probeFailed' = failed
  /\ probes' = SatInc(probes)
  /\ IF WaitIfNotEnoughCalls(Num(r), callsNeeded)
       THEN /\ gPc' = "returned"
            /\ UNCHANGED <<sleeps, timer>>
       ELSE /\ gPc' = "sleep"
            /\ sleeps' = SatInc(sleeps)
            /\ timer' = BackoffMs
  /\ UNCHANGED <<callsNeeded, initialHeaders>>

\* GET /users/octocat answers.
ProbeAnswers ==
  /\ gPc = "probe"
  /\ AfterProbe(GetRateLimit(quota), FALSE)
  /\ UNCHANGED <<graphql, quota, tvars>>
  /\ UNCHANGED others

\* Variant: no catch stands between the request and the gate's caller, and
\* the gate rejects.
OnProbeErrorRejects(r) ==
  /\ gPc' = "rejected"
  /\ probeFailed' = TRUE
  /\ UNCHANGED <<callsNeeded, initialHeaders, remaining, probes, sleeps, timer>>

\* The catch of getRateLimit: core.error twice and `return 0`, and the loop
\* body of callGitHubAPI goes on with that count.
OnProbeError(r) == AfterProbe(r, TRUE)

\* GET /users/octocat throws.
ProbeThrows ==
  /\ gPc = "probe"
  /\ OnProbeError(GetRateLimitOnError)
  /\ UNCHANGED <<graphql, quota, tvars>>
  /\ UNCHANGED others

\* The backoff timer fires: waitIfNotEnoughCalls returns false and the
\* next probe is sent.
BackoffElapses ==
  /\ gPc = "sleep"
  /\ gPc' = "probe"
  /\ timer' = 0
  /\ UNCHANGED <<callsNeeded, initialHeaders, remaining, probeFailed, probes,
                 sleeps>>
  /\ UNCHANGED <<graphql, quota, tvars>>
  /\ UNCHANGED others

----------------------------------------------------------------------------
\* The traversals: getAllOrganizationsInEnterprise, getConsumedLicenses,
\* getMoreTeamsForUser, getCopilotSeats

\* Variant: the check runs on every first look, more pages or not.
NeedsCheckAlways(f, done, pg) == ~done

\* The condition of the rate limit check in the loop body.
NeedsCheck(f, done, pg) ==
  /\ ~done
  /\ IF f \in GraphQL THEN pg.hasNext ELSE JsGreater(NumOf(pg.total), PageSize)

\* totalCalls + 10
TotalCallsNeeded(total) == JsAdd(MathCeilDiv(NumOf(total), PageSize), Margin)

\* The third argument the traversal gives the gate.
HeadersArg(f, q) == IF f \in Rest THEN Headers(q) ELSE NoArg

\* Variant: unshift instead of push.
PushFront(list, items) == items \o list

\* all.push(...items)
Push(list, items) == list \o items

\* Variant: the gate is called without await.
NoAwaitGate(hasNext) == IF hasNext THEN "fetch" ELSE "done"

\* `await hold_until_rate_limit_success(...)`: the loop stands still until
\* the gate returns.
AwaitGate(hasNext) == "gate"

\* Variant: the flag is never set.
PageCheckNotDone == FALSE

\* page_check_done = true
PageCheckDone == TRUE

\* The for-await asks the iterator for the next page, or the loop ends and
\* the list is returned.
Continue(hasNext, list) ==
  /\ tPc' = IF hasNext THEN "fetch" ELSE "done"
  /\ result' = IF hasNext THEN NoResult ELSE [kind |-> "value", value |-> list]

\* Variant: the catch returns what was collected.
OnFetchErrorPartial(list) == [kind |-> "value", value |-> list]

\* catch (error) { core.error(...); throw error }
OnFetchError(list) == [kind |-> "error", value |-> <<>>]

\* A traversal is called.  #init runs first: on a fresh manager it builds
\* the client and holds for 100 calls, afterwards it returns at once.
Call(f) ==
  /\ tPc = "idle"
  /\ fn' = f
  /\ all' = <<>>
  /\ page_check_done' = FALSE
  /\ pageNo' = 0
  /\ page' = NoPage
  /\ first' = NoPage
  /\ anyTotal' = FALSE
  /\ served' = <<>>
  /\ result' = NoResult
  /\ errorsLogged' = 0
  /\ IF graphql
       THEN /\ tPc' = "fetch"
            /\ gateLog' = <<>>
            /\ UNCHANGED <<graphql, gvars>>
       ELSE /\ graphql' = TRUE
            /\ InvokeGate(InitCalls, NoArg)
            /\ gateLog' = <<[by |-> "init", callsNeeded |-> InitCalls,
                             total |-> Undefined, page |-> 0, items |-> 0]>>
            /\ tPc' = "gate"
  /\ UNCHANGED <<quota, pages>>
  /\ UNCHANGED others

\* A page arrives and the loop body runs up to its next await.
PageArrives ==
  /\ tPc = "fetch"
  /\ \E pg \in PageResponses(pageNo + 1) :
       /\ all' = Push(all, pg.items)
       /\ served' = Append(served, pg.items)
       /\ pageNo' = pageNo + 1
       /\ page' = [total |-> pg.total, hasNext |-> pg.hasNext]
       /\ first' = IF pageNo = 0 THEN page' ELSE first
       /\ anyTotal' = (anyTotal \/ pg.total # Undefined)
       /\ IF NeedsCheck(fn, page_check_done, pg)
            THEN /\ InvokeGate(TotalCallsNeeded(pg.total), HeadersArg(fn, quota))
                 /\ gateLog' = Append(gateLog,
                      [by |-> "loop", callsNeeded |-> TotalCallsNeeded(pg.total),
                       total |-> pg.total, page |-> pageNo + 1,
                       items |-> Len(all')])
                 /\ tPc' = AwaitGate(pg.hasNext)
                 /\ result' = NoResult
            ELSE /\ Continue(pg.hasNext, all')
                 /\ UNCHANGED <<gateLog, gvars>>
  /\ UNCHANGED <<graphql, quota, fn, page_check_done, errorsLogged, pages>>
  /\ UNCHANGED others

\* The page request throws.
PageThrows ==
  /\ tPc = "fetch"
  /\ errorsLogged' = errorsLogged + 1
  /\ result' = OnFetchError(all)
  /\ tPc' = "failed"
  /\ UNCHANGED <<graphql, quota, fn, all, page_check_done, pageNo, page,
                 first, anyTotal, served, gateLog, pages, gvars>>
  /\ UNCHANGED others

\* The gate has returned and its caller goes on: #init returns and the
\* first page is requested, or the loop body sets its flag and the loop
\* goes round.
GateReturns ==
  /\ tPc = "gate"
  /\ gPc = "returned"
  /\ ResetGate
  /\ IF gateLog[Len(gateLog)].by = "init"
       THEN /\ tPc' = "fetch"
            /\ UNCHANGED <<page_check_done, result>>
       ELSE /\ page_check_done' = PageCheckDone
            /\ Continue(page.hasNext, all)
  /\ UNCHANGED <<graphql, quota, fn, all, pageNo, page, first, anyTotal,
                 served, errorsLogged, gateLog, pages>>
  /\ UNCHANGED others

\* The caller has its list, or its exception.
Return ==
  /\ tPc \in {"done", "failed"}
  /\ ResetTraversal
  /\ UNCHANGED <<graphql, quota, gvars>>
  /\ UNCHANGED others

\* The remote's counter moves: other clients spend calls, the hour ends.
QuotaChanges ==
  /\ \E q \in RemainingValues \ {quota} : quota' = q
  /\ UNCHANGED <<graphql, tvars, gvars>>
  /\ UNCHANGED others

----------------------------------------------------------------------------
\* getTeamsForUser

\* The organization nodes page p may hold: each has one team edge of its
\* own and says whether the user has more teams in it than the page shows.
OrgNodes(p) ==
  UNION { { [i \in 1 .. k |-> [login |-> <<p, i>>, hasNextPage |-> f[i]]] :
              f \in [1 .. k -> BOOLEAN] } : k \in 0 .. MaxOrgs }

\* What the remote may answer to the request for organization page p.
OrgPageResponses(p) ==
  { pg \in [nodes : OrgNodes(p), hasNext : BOOLEAN] :
      p >= MaxOrgPages => ~pg.hasNext }

\* What the awaited getMoreTeamsForUser may give: its list, or the
\* exception its catch throws again.
MoreTeamsOutcomes ==
  {[kind |-> "value", value |-> ts] : ts \in {<<>>, <<"more">>}}
    \cup {OnFetchError(<<>>)}

\* orgResult as first built, before any continuation.
OrgResult(org) == [org |-> org.login, teams |-> <<"edge">>]

\* The inner for loop up to its next await: organizations that need no
\* continuation are pushed one after another.  Gives what is collected
\* and what is left, an organization awaiting its continuation first.
RECURSIVE HandleNodes(_, _)
HandleNodes(orgs, ns) ==
  IF ns = <<>> \/ Head(ns).hasNextPage
    THEN [orgs |-> orgs, nodes |-> ns]
    ELSE HandleNodes(Append(orgs, OrgResult(Head(ns))), Tail(ns))

\* Variant: the catch returns what was collected.
TeamsCatchPartial(orgs) == [kind |-> "value", value |-> orgs]

\* catch (error) { core.error(...); core.error(error); return { orgs: [] } }
TeamsCatch(orgs) == [kind |-> "value", value |-> <<>>]

\* No getTeamsForUser call in progress.
TeamsIdle ==
  /\ teamsPc = "idle"
  /\ userWithOrgs = <<>>
  /\ nodes = <<>>
  /\ hasMoreOrgs = FALSE
  /\ orgPageNo = 0
  /\ fetchFailed = FALSE
  /\ teamsErrors = 0
  /\ teamsResult = NoResult

\* getTeamsForUser is called: #init first, then the iterator is made.
GetTeamsForUser ==
  /\ teamsPc = "idle"
  /\ tPc = "idle"
  /\ IF graphql
       THEN /\ teamsPc' = "fetch"
            /\ UNCHANGED <<graphql, gvars>>
       ELSE /\ graphql' = TRUE
            /\ InvokeGate(InitCalls, NoArg)
            /\ teamsPc' = "init"
  /\ UNCHANGED <<quota, tvars, userWithOrgs, nodes, hasMoreOrgs, orgPageNo,
                 fetchFailed, teamsErrors, teamsResult>>
  /\ UNCHANGED <<pvars, rvars, cancelled>>

\* #init's gate has returned.
TeamsInitReturns ==
  /\ teamsPc = "init"
  /\ gPc = "returned"
  /\ ResetGate
  /\ teamsPc' = "fetch"
  /\ UNCHANGED <<graphql, quota, tvars, userWithOrgs, nodes, hasMoreOrgs,
                 orgPageNo, fetchFailed, teamsErrors, teamsResult>>
  /\ UNCHANGED <<pvars, rvars, cancelled>>

\* The loops go on from organizations `orgs` collected and `ns` to handle:
\* to the next continuation, the next page, or the return.
TeamsContinue(orgs, ns, more) ==
  LET h == HandleNodes(orgs, ns) IN
    /\ userWithOrgs' = h.orgs
    /\ nodes' = h.nodes
    /\ teamsPc' = IF h.nodes # <<>> THEN "more"
                  ELSE IF more THEN "fetch" ELSE "done"
    /\ teamsResult' = IF h.nodes = <<>> /\ ~more
                        THEN [kind |-> "value", value |-> h.orgs]
                        ELSE NoResult

\* The try block is left through its catch.
TeamsFails ==
  /\ fetchFailed' = TRUE
  /\ teamsErrors' = teamsErrors + 2
  /\ teamsResult' = TeamsCatch(userWithOrgs)
  /\ teamsPc' = "done"
  /\ UNCHANGED <<userWithOrgs, nodes, hasMoreOrgs, orgPageNo>>

\* A page of organizations arrives.
OrgPageArrives ==
  /\ teamsPc = "fetch"
  /\ \E pg \in OrgPageResponses(orgPageNo + 1) :
       /\ hasMoreOrgs' = pg.hasNext
       /\ TeamsContinue(userWithOrgs, pg.nodes, pg.hasNext)
  /\ orgPageNo' = orgPageNo + 1
  /\ UNCHANGED <<graphql, quota, tvars, gvars, fetchFailed, teamsErrors>>
  /\ UNCHANGED <<pvars, rvars, cancelled>>

\* The request for a page of organizations throws.
OrgPageThrows ==
  /\ teamsPc = "fetch"
  /\ TeamsFails
  /\ UNCHANGED <<graphql, quota, tvars, gvars>>
  /\ UNCHANGED <<pvars, rvars, cancelled>>

\* The awaited getMoreTeamsForUser settles.
MoreTeamsReturns ==
  /\ teamsPc = "more"
  /\ \E r \in MoreTeamsOutcomes :
       IF r.kind = "value"
         THEN /\ TeamsContinue(
                   Append(userWithOrgs,
                          [org |-> Head(nodes).login,
                           teams |-> Push(OrgResult(Head(nodes)).teams, r.value)]),
                   Tail(nodes), hasMoreOrgs)
              /\ UNCHANGED <<hasMoreOrgs, orgPageNo, fetchFailed, teamsErrors>>
         ELSE TeamsFails
  /\ UNCHANGED <<graphql, quota, tvars, gvars>>
  /\ UNCHANGED <<pvars, rvars, cancelled>>

\* The call frame of getTeamsForUser is gone.
ResetTeams ==
  /\ teamsPc' = "idle"
  /\ userWithOrgs' = <<>>
  /\ nodes' = <<>>
  /\ hasMoreOrgs' = FALSE
  /\ orgPageNo' = 0
  /\ fetchFailed' = FALSE
  /\ teamsErrors' = 0
  /\ teamsResult' = NoResult

\* The caller has its object.
TeamsReturn ==
  /\ teamsPc = "done"
  /\ ResetTeams
  /\ UNCHANGED <<graphql, quota, tvars, gvars>>
  /\ UNCHANGED <<pvars, rvars, cancelled>>

----------------------------------------------------------------------------
\* The cache providers: LastActivityProvider and UserAccountProvider over
\* StorageTableClient

Providers == {"LastActivityProvider", "UserAccountProvider"}
Logins == 1 .. MaxUsers
Times == 1 .. MaxTime
StartTime == MaxTime - 1

\* An entity has its lastUpdated, its payload (`data`: lastActivityDate, or
\* created_at, updated_at, company and name) and, where it holds a user's
\* data, the id and type of that user (`id`).

\* No entity under a row key.
NoEntity == [lastUpdated |-> Undefined, data |-> Undefined, id |-> Undefined]

\* Variant: the entity is created with a date.
StampedEntity == [lastUpdated |-> 1, data |-> Null, id |-> Undefined]

\* bulkInsert's entity: `lastActivityDate: null, lastUpdated: null`.
EmptyEntity == [lastUpdated |-> Null, data |-> Null, id |-> Undefined]

\* `id: user.id, type: user.type` of the entity upsertUserData builds from
\* the user data d: the remote gives the same id and type for a user in
\* every answer (1 stands for them).  upsertUser's entity has no such field.
IdOf(d) == IF provider = "UserAccountProvider" THEN 1 ELSE Undefined

\* What a table may hold under one row key when a run starts: nothing, an
\* entity never refreshed, or one refreshed at an earlier time, the
\* earliest or the latest there is.
InitialEntities ==
  {NoEntity, EmptyEntity} \cup
    {[lastUpdated |-> t, data |-> t, id |-> IdOf(t)] : t \in {1, StartTime}}

\* What the remote gives as a user's payload at time t: the payload is
\* named by the time it was read at.
Payloads(t) == {t}

\* The remaining-call counts a per-user response may carry.
ResponseRemaining == {Floor - 1, Floor, LowWater}

\* getAll(): the entities of the table, in row key order.
RECURSIVE GetAllFrom(_, _)
GetAllFrom(st, k) ==
  IF k > MaxUsers THEN <<>>
  ELSE IF st[k] = NoEntity THEN GetAllFrom(st, k + 1)
  ELSE <<[rowKey |-> k, lastUpdated |-> st[k].lastUpdated,
          data |-> st[k].data, id |-> st[k].id]>> \o GetAllFrom(st, k + 1)

GetAll(st) == GetAllFrom(st, 1)

\* this.users.some(u => u.rowKey === login)
Some(us, login) == \E i \in 1 .. Len(us) : us[i].rowKey = login

\* bulkInsert(userLogins): one transaction creating an entity per login.
BulkInsert(st, logins) ==
  [k \in Logins |-> IF k \in Range(logins) THEN EmptyEntity ELSE st[k]]

\* The list of a set of logins, in their order and each once.
RECURSIVE ListedFrom(_, _)
ListedFrom(logins, k) ==
  IF k > MaxUsers THEN <<>>
  ELSE (IF k \in logins THEN <<k>> ELSE <<>>) \o ListedFrom(logins, k + 1)

Listed(logins) == ListedFrom(logins, 1)

\* The lists initialize may be given: any logins, each once, or one login
\* listed twice.
AllUsersLists ==
  {Listed(logins) : logins \in SUBSET Logins} \cup {<<k, k>> : k \in Logins}

\* The provider as Spec and TeamsSpec hold it: built and never used.
ProviderIdle ==
  /\ provider = "LastActivityProvider"
  /\ tableClient = FALSE
  /\ sliceLen = MaxBudget
  /\ rateLimitRemaining = AuditAssumed
  /\ loaded = FALSE
  /\ users = <<>>
  /\ store = [k \in Logins |-> NoEntity]
  /\ now = StartTime
  /\ op = "none"
  /\ pPc = "idle"
  /\ key = 0
  /\ pos = 0
  /\ fetched = [data |-> Undefined, rateLimitRemaining |-> Undefined]
  /\ stamp = Undefined
  /\ ptimer = 0
  /\ pResult = [kind |-> "none", data |-> Undefined, lastChecked |-> Undefined]
  /\ atStart = <<>>
  /\ fetchLog = <<>>
  /\ upsertLog = <<>>
  /\ failLog = <<>>
  /\ warnings = 0
  /\ pErrors = 0
  /\ insertLog = <<>>
  /\ failedCall = "none"

\* a.lastUpdated ? new Date(a.lastUpdated) : new Date(0), as a number
DateOf(lastUpdated) == IF lastUpdated = Null THEN 0 ELSE lastUpdated

\* Variant: the comparator with its operands exchanged.
CompareDescending(a, b) == DateOf(b.lastUpdated) - DateOf(a.lastUpdated)

\* The comparator given to sort: aDate - bDate.
Compare(a, b) == DateOf(a.lastUpdated) - DateOf(b.lastUpdated)

\* One step of the sort: u goes behind every element that does not
\* compare greater than it.
InsertSorted(sorted, u) ==
  LET k == Cardinality({i \in 1 .. Len(sorted) : Compare(sorted[i], u) <= 0})
  IN SubSeq(sorted, 1, k) \o <<u>> \o SubSeq(sorted, k + 1, Len(sorted))

\* Array.prototype.sort with that comparator: stable.
RECURSIVE SortPrefix(_, _)
SortPrefix(us, n) ==
  IF n = 0 THEN <<>> ELSE InsertSorted(SortPrefix(us, n - 1), us[n])

Sort(us) == SortPrefix(us, Len(us))

\* Variant: nothing is cut off.
SliceAll(us, n) == us

\* .slice(0, n)
Slice(us, n) == SubSeq(us, 1, IF n < Len(us) THEN n ELSE Len(us))

\* usersToCheck, once refreshUserData has sorted this.users.
UsersToCheck == Slice(users, sliceLen)

\* What resolves with no value, and what rejects.
Resolved == [kind |-> "value", data |-> Undefined, lastChecked |-> Undefined]
Rejected == [kind |-> "error", data |-> Undefined, lastChecked |-> Undefined]

\* The object with every field null that stands for "nothing known".
NullResult == [kind |-> "value", data |-> Null, lastChecked |-> Null]

\* The provider method ends with result r.
Ends(r) ==
  /\ pPc' = "done"
  /\ pResult' = r

\* The provider method sends the manager's request for login k.
Asks(k) ==
  /\ pPc' = "fetch"
  /\ key' = k
  /\ fetchLog' = Append(fetchLog, k)
  /\ pResult' = [kind |-> "none", data |-> Undefined, lastChecked |-> Undefined]

\* Variant: every login given is taken for missing.
MissingUsersAll(allUsers, us) == allUsers

\* allUsers.filter(user => !this.users.some(u => u.rowKey === login))
\*         .map(user => user.github_com_login)
MissingUsers(allUsers, us) == SelectSeq(allUsers, LAMBDA k : ~Some(us, k))

\* The awaited table calls of initialize.
TableCalls == {"createTable", "getAll", "bulkInsert", "getAll again"}

\* Variant: a failure of the table is logged and initialize resolves.
InitializeCatch(thrown) == Resolved

\* initialize has no try: it rejects when a table call throws.
InitializeEnds(thrown) == IF thrown = "none" THEN Resolved ELSE Rejected

\* initialize(allUsers), with the logins of allUsers given.  Any of its
\* awaited table calls may throw, and initialize then rejects.
Initialize(allUsers) ==
  /\ pPc = "idle"
  /\ op' = "initialize"
  /\ atStart' = users
  /\ IF ~tableClient
       THEN /\ warnings' = warnings + 1
            /\ Ends(Resolved)
            /\ UNCHANGED <<loaded, users, store, insertLog, failedCall>>
       ELSE LET snapshot == GetAll(store)
                missingUsers == MissingUsers(allUsers, snapshot)
                inserted == IF missingUsers # <<>>
                              THEN BulkInsert(store, missingUsers) ELSE store
            IN \E thrown \in {"none"} \cup TableCalls :
                 /\ thrown = "bulkInsert" => missingUsers # <<>>
                 /\ failedCall' = thrown
                 /\ insertLog' =
                      IF thrown \notin {"createTable", "getAll"}
                           /\ missingUsers # <<>>
                        THEN Append(insertLog, missingUsers) ELSE insertLog
                 /\ loaded' = (loaded \/ thrown \notin {"createTable", "getAll"})
                 /\ users' = CASE thrown \in {"createTable", "getAll"} -> users
                               [] thrown \in {"bulkInsert", "getAll again"} -> snapshot
                               [] OTHER -> GetAll(inserted)
                 /\ store' = IF thrown \in {"none", "getAll again"}
                               THEN inserted ELSE store
                 /\ Ends(InitializeEnds(thrown))
                 /\ UNCHANGED warnings
  /\ UNCHANGED <<graphql, quota, tvars, gvars, uvars, rvars,
                 cancelled>>
  /\ UNCHANGED <<provider, tableClient, sliceLen, rateLimitRemaining, now, key,
                 pos, fetched, stamp, ptimer, fetchLog, upsertLog, failLog,
                 pErrors>>

\* The for loop of refreshUserData moves on from place i: to the next
\* selected user, or out of the loop and the method resolves.
NextUser(us, i) ==
  IF i < Len(Slice(us, sliceLen))
    THEN /\ pos' = i + 1
         /\ Asks(us[i + 1].rowKey)
    ELSE /\ Ends(Resolved)
         /\ UNCHANGED <<pos, key, fetchLog>>

\* refreshUserData() up to its first await.
RefreshUserData ==
  /\ pPc = "idle"
  /\ tableClient => loaded
  /\ op' = "refresh"
  /\ atStart' = users
  /\ IF ~tableClient
       THEN /\ Ends(Resolved)
            /\ UNCHANGED <<users, pos, key, fetchLog>>
       ELSE /\ users' = Sort(users)
            /\ NextUser(users', 0)
  /\ UNCHANGED <<insertLog, failedCall>>
  /\ UNCHANGED <<graphql, quota, tvars, gvars, uvars, rvars,
                 cancelled>>
  /\ UNCHANGED <<provider, tableClient, sliceLen, rateLimitRemaining, loaded,
                 store, now, fetched, stamp, ptimer, upsertLog, failLog,
                 warnings, pErrors>>

\* Variant: every caller leaves sleepOnRateLimit to its default.
SleepOnRateLimitAlways(o) == TRUE

\* The third argument of getLastActivityForUser, the second of getUser:
\* left to its default by refreshUserData, false in the point lookups.
SleepOnRateLimit(o) == o = "refresh"

\* `5 * 60000` in getLastActivityForUser, `1 * 60000` in getUser.
SleepMs(p) == IF p = "LastActivityProvider" THEN 5 * 60000 ELSE 1 * 60000

\* Variant: the pass never stops for a low count.
StopsRefreshNever(r) == FALSE

\* if (lastActivityInfo.rateLimitRemaining < 5) break
StopsRefresh(r) == JsLess(r, Floor)

\* Variant: a failure ends the pass, and the method rejects.
OnUserErrorAbort(us, i) ==
  /\ Ends(Rejected)
  /\ UNCHANGED <<pos, key, fetchLog>>

\* catch (error) { core.warning(...) } inside the for loop: on to the
\* next user.
OnUserError(us, i) == NextUser(us, i)

\* Variant: the point lookup's guard written `< 4`.
ExhaustedBelowFour(r) == JsLess(r, Floor - 1)

\* if (this.rateLimitRemaining < 5) in the point lookups
Exhausted(r) == JsLess(r, Floor)

\* Variant: the lookup's catch throws the error again.
LookupCatchRethrow == Rejected

\* The catch of the point lookup without a cache: core.error, and the
\* object with null fields is returned.
LookupCatch == NullResult

\* Variant: the tracked count is counted down by one.
TrackedAfterDecrement(tracked, info) == tracked - 1

\* this.rateLimitRemaining = lastDateFromAuditCall.rateLimitRemaining
TrackedAfter(tracked, info) == info.rateLimitRemaining

\* The index of login k in this.users, 0 when find() gives undefined.
Find(us, k) ==
  IF Some(us, k) THEN CHOOSE i \in 1 .. Len(us) : us[i].rowKey = k ELSE 0

\* What the point lookup returns from a fresh answer of the manager.
LiveResult(info, t) ==
  [kind |-> "value", data |-> info.data,
   lastChecked |-> IF provider = "LastActivityProvider" THEN t ELSE Undefined]

\* The manager's call has returned info at time t; the provider method
\* runs on to its next await or its return.
AfterFetch(info, t) ==
  /\ ptimer' = 0
  /\ IF op = "refresh"
       THEN /\ stamp' = t
            /\ pPc' = "upsert"
            /\ UNCHANGED <<rateLimitRemaining, pResult>>
       ELSE /\ rateLimitRemaining' = TrackedAfter(rateLimitRemaining, info)
            /\ IF tableClient
                 THEN /\ stamp' = t
                      /\ pPc' = "upsert"
                      /\ UNCHANGED pResult
                 ELSE /\ Ends(LiveResult(info, t))
                      /\ UNCHANGED stamp

\* The per-user request is answered, and the manager's method runs up to
\* its sleep or its return.
FetchAnswers ==
  /\ pPc = "fetch"
  /\ \E q \in ResponseRemaining, t \in now .. MaxTime :
       \E d \in Payloads(t) :
         /\ now' = t
         /\ fetched' = [data |-> d, rateLimitRemaining |-> GetRateLimit(q)]
         /\ IF JsLess(fetched'.rateLimitRemaining, LowWater)
                 /\ SleepOnRateLimit(op)
              THEN /\ pPc' = "sleep"
                   /\ ptimer' = SleepMs(provider)
                   /\ UNCHANGED <<rateLimitRemaining, stamp, pResult>>
              ELSE AfterFetch(fetched', t)
  /\ UNCHANGED <<insertLog, failedCall>>
  /\ UNCHANGED <<graphql, quota, tvars, gvars, uvars, rvars,
                 cancelled>>
  /\ UNCHANGED <<provider, tableClient, sliceLen, loaded, users, store, op, key,
                 pos, atStart, fetchLog, upsertLog, failLog, warnings, pErrors>>

\* The manager's sleep ends and its method returns.
SleepElapses ==
  /\ pPc = "sleep"
  /\ AfterFetch(fetched, now)
  /\ UNCHANGED now
  /\ UNCHANGED <<insertLog, failedCall>>
  /\ UNCHANGED <<graphql, quota, tvars, gvars, uvars, rvars,
                 cancelled>>
  /\ UNCHANGED <<provider, tableClient, sliceLen, loaded, users, store, op, key,
                 pos, fetched, atStart, fetchLog, upsertLog, failLog, warnings,
                 pErrors>>

\* The per-user request throws: the manager logs and throws again.
FetchThrows ==
  /\ pPc = "fetch"
  /\ failLog' = Append(failLog, key)
  /\ IF op = "refresh"
       THEN /\ warnings' = warnings + 1
            /\ OnUserError(users, pos)
            /\ UNCHANGED pErrors
       ELSE /\ IF tableClient
                 THEN /\ Ends(Rejected)
                      /\ UNCHANGED pErrors
                 ELSE /\ Ends(LookupCatch)
                      /\ pErrors' = pErrors + 1
            /\ UNCHANGED <<warnings, pos, key, fetchLog>>
  /\ UNCHANGED <<insertLog, failedCall>>
  /\ UNCHANGED <<graphql, quota, tvars, gvars, uvars, rvars,
                 cancelled>>
  /\ UNCHANGED <<provider, tableClient, sliceLen, rateLimitRemaining, loaded,
                 users, store, now, op, fetched, stamp, ptimer, atStart,
                 upsertLog>>

\* Variant: the record in this.users is left as it was.
UpdateCacheNot(us, k, entity) == us

\* `// update the cache`: the record of login k in this.users takes the
\* lastUpdated and the payload of the entity the upsert returned; getUserData
\* assigns `user.id` and `user.type` as well, the refreshUserData loops
\* do not.
UpdateCache(us, k, entity) ==
  [us EXCEPT ![Find(us, k)] =
     [rowKey |-> k, lastUpdated |-> entity.lastUpdated, data |-> entity.data,
      id |-> IF op = "lookup" THEN entity.id ELSE @.id]]

\* Variant: the entity is written without its date.
UpsertEntityUndated(t, d) == [lastUpdated |-> Null, data |-> d, id |-> IdOf(d)]

\* The entity upsertUser / upsertUserData builds at time t from payload d:
\* `lastUpdated: new Date().toISOString()`.
UpsertEntity(t, d) == [lastUpdated |-> t, data |-> d, id |-> IdOf(d)]

\* upsertEntity succeeds: the entity is written and the record in
\* this.users takes its lastUpdated and payload.
UpsertSucceeds ==
  /\ pPc = "upsert"
  /\ store' = [store EXCEPT ![key] = UpsertEntity(stamp, fetched.data)]
  /\ users' = UpdateCache(users, key, store'[key])
  /\ upsertLog' = Append(upsertLog, key)
  /\ IF op = "refresh"
       THEN IF StopsRefresh(fetched.rateLimitRemaining)
              THEN /\ warnings' = warnings + 1
                   /\ Ends(Resolved)
                   /\ UNCHANGED <<pos, key, fetchLog>>
              ELSE /\ NextUser(users, pos)
                   /\ UNCHANGED warnings
       ELSE /\ Ends(LiveResult(fetched, stamp))
            /\ UNCHANGED <<warnings, pos, key, fetchLog>>
  /\ UNCHANGED <<insertLog, failedCall>>
  /\ UNCHANGED <<graphql, quota, tvars, gvars, uvars, rvars,
                 cancelled>>
  /\ UNCHANGED <<provider, tableClient, sliceLen, rateLimitRemaining, loaded,
                 now, op, fetched, stamp, ptimer, atStart, failLog, pErrors>>

\* Variant: the record is written before the upsert is known to have
\* succeeded.
OnUpsertErrorWritten(us, k, entity) == UpdateCache(us, k, entity)

\* The assignments to the record stand behind the awaited upsert: when it
\* throws they are skipped and the record is as it was.
OnUpsertError(us, k, entity) == us

\* upsertEntity throws.
UpsertThrows ==
  /\ pPc = "upsert"
  /\ failLog' = Append(failLog, key)
  /\ users' = OnUpsertError(users, key, UpsertEntity(stamp, fetched.data))
  /\ IF op = "refresh"
       THEN /\ warnings' = warnings + 1
            /\ OnUserError(users, pos)
       ELSE /\ Ends(Rejected)
            /\ UNCHANGED <<warnings, pos, key, fetchLog>>
  /\ UNCHANGED <<insertLog, failedCall>>
  /\ UNCHANGED <<graphql, quota, tvars, gvars, uvars, rvars,
                 cancelled>>
  /\ UNCHANGED <<provider, tableClient, sliceLen, rateLimitRemaining, loaded,
                 store, now, op, fetched, stamp, ptimer, atStart,
                 upsertLog, pErrors>>

\* The instant, in milliseconds, that time t of the clock stands for: the
\* instants lie a freshness window apart and one millisecond apart in
\* turn, so that a record can be exactly the window old and just older.
Instant(t) == (t \div 2) * (FreshDays * DayMs) + ((t - 1) \div 2)

\* Math.abs(currentDate - lastUpdatedDate)
DiffTime(lastUpdated, t) ==
  IF Instant(t) >= Instant(lastUpdated)
    THEN Instant(t) - Instant(lastUpdated)
    ELSE Instant(lastUpdated) - Instant(t)

\* Variant: the days are rounded down.
DiffDaysFloor(lastUpdated, t) == DiffTime(lastUpdated, t) \div DayMs

\* Math.ceil(diffTime / (1000 * 60 * 60 * 24))
DiffDays(lastUpdated, t) == MathCeilDiv(DiffTime(lastUpdated, t), DayMs)

\* Variant: a record never updated is taken for fresh.
NeedToUpdateUnlessNull(lastUpdated, t) ==
  IF lastUpdated # Null THEN DiffDays(lastUpdated, t) > FreshDays ELSE FALSE

\* needToUpdate in getUserData
NeedToUpdate(lastUpdated, t) ==
  IF lastUpdated # Null THEN DiffDays(lastUpdated, t) > FreshDays ELSE TRUE

\* Variant: a login the list lacks is fetched on demand.
OnCacheMissFetch(k) ==
  /\ Asks(k)
  /\ UNCHANGED warnings

\* The login is not in this.users: core.warning, and the object with null
\* fields is returned.
OnCacheMiss(k) ==
  /\ warnings' = warnings + 1
  /\ Ends(NullResult)
  /\ UNCHANGED fetchLog

\* Variant: a stale record is not returned.
CachedActivityIfFresh(user) ==
  IF NeedToUpdate(user.lastUpdated, now) THEN NullResult
  ELSE [kind |-> "value", data |-> user.data, lastChecked |-> user.lastUpdated]

\* What getLastActivityDateForUser returns from the record it found.
CachedActivity(user) ==
  [kind |-> "value", data |-> user.data, lastChecked |-> user.lastUpdated]

\* What getUserData returns from the record it found: `user.lastChecked`
\* is a field no record has.
CachedUserData(user) ==
  [kind |-> "value", data |-> user.data, lastChecked |-> Undefined]

\* getLastActivityDateForUser(k) / getUserData(k) up to its first await or
\* its return.
Lookup(k) ==
  /\ pPc = "idle"
  /\ tableClient => loaded
  /\ op' = "lookup"
  /\ key' = k
  /\ atStart' = users
  /\ IF ~tableClient
       THEN IF Exhausted(rateLimitRemaining)
              THEN /\ warnings' = warnings + 1
                   /\ Ends(NullResult)
                   /\ UNCHANGED fetchLog
              ELSE /\ Asks(k)
                   /\ UNCHANGED warnings
       ELSE LET i == Find(users, k) IN
            IF i = 0
              THEN OnCacheMiss(k)
            ELSE IF provider = "LastActivityProvider"
              THEN /\ Ends(CachedActivity(users[i]))
                   /\ UNCHANGED <<warnings, fetchLog>>
            ELSE IF ~NeedToUpdate(users[i].lastUpdated, now)
              THEN /\ Ends(CachedUserData(users[i]))
                   /\ UNCHANGED <<warnings, fetchLog>>
            ELSE IF Exhausted(rateLimitRemaining)
              THEN /\ warnings' = warnings + 1
                   /\ Ends(CachedUserData(users[i]))
                   /\ UNCHANGED fetchLog
            ELSE /\ Asks(k)
                 /\ UNCHANGED warnings
  /\ UNCHANGED <<insertLog, failedCall>>
  /\ UNCHANGED <<graphql, quota, tvars, gvars, uvars, rvars,
                 cancelled>>
  /\ UNCHANGED <<provider, tableClient, sliceLen, rateLimitRemaining, loaded,
                 users, store, now, pos, fetched, stamp, ptimer, upsertLog,
                 failLog, pErrors>>

\* The call frame of a provider method is gone.
ResetProvider ==
  /\ op' = "none"
  /\ pPc' = "idle"
  /\ key' = 0
  /\ pos' = 0
  /\ fetched' = [data |-> Undefined, rateLimitRemaining |-> Undefined]
  /\ stamp' = Undefined
  /\ pResult' = [kind |-> "none", data |-> Undefined, lastChecked |-> Undefined]
  /\ atStart' = <<>>
  /\ fetchLog' = <<>>
  /\ upsertLog' = <<>>
  /\ failLog' = <<>>
  /\ warnings' = 0
  /\ pErrors' = 0
  /\ insertLog' = <<>>
  /\ failedCall' = "none"

\* The caller has what the provider method gave.
ProviderReturn ==
  /\ pPc = "done"
  /\ ResetProvider
  /\ UNCHANGED <<graphql, quota, tvars, gvars, uvars, rvars,
                 cancelled>>
  /\ UNCHANGED <<provider, tableClient, sliceLen, rateLimitRemaining, loaded,
                 users, store, now, ptimer>>

\* A provider of either class, just built over a manager that has already
\* listed the enterprise's users, and the table as earlier runs left it.
ProviderInit ==
  /\ graphql = TRUE
  /\ quota = InitCalls
  /\ TraversalIdle
  /\ GateIdle
  /\ TeamsIdle
  /\ provider \in Providers
  /\ tableClient \in BOOLEAN
  /\ sliceLen \in IF tableClient THEN 1 .. MaxBudget ELSE {MaxBudget}
  /\ rateLimitRemaining =
       IF provider = "LastActivityProvider" THEN AuditAssumed ELSE UserAssumed
  /\ loaded = FALSE
  /\ users = <<>>
  /\ store \in IF tableClient THEN [Logins -> InitialEntities]
               ELSE {[k \in Logins |-> NoEntity]}
  /\ now = StartTime
  /\ op = "none"
  /\ pPc = "idle"
  /\ key = 0
  /\ pos = 0
  /\ fetched = [data |-> Undefined, rateLimitRemaining |-> Undefined]
  /\ stamp = Undefined
  /\ ptimer = 0
  /\ pResult = [kind |-> "none", data |-> Undefined, lastChecked |-> Undefined]
  /\ atStart = <<>>
  /\ fetchLog = <<>>
  /\ upsertLog = <<>>
  /\ failLog = <<>>
  /\ warnings = 0
  /\ pErrors = 0
  /\ insertLog = <<>>
  /\ failedCall = "none"
  /\ rPc = "none"
  /\ licensed = {}
  /\ report = <<>>
  /\ providerCalls = <<>>
  /\ cancelled = FALSE

\* The steps of a provider and of the calls made on it.
ProviderNext ==
  \/ \E allUsers \in AllUsersLists : Initialize(allUsers)
  \/ RefreshUserData
  \/ \E k \in Logins : Lookup(k)
  \/ FetchAnswers
  \/ SleepElapses
  \/ FetchThrows
  \/ UpsertSucceeds
  \/ UpsertThrows
  \/ ProviderReturn

ProviderSpec == ProviderInit /\ [][ProviderNext]_vars

\* The provider's calls under an event loop that delivers what is pending:
\* a request sent to the remote is answered or throws, the manager's timer
\* fires, an upsert sent to the table succeeds or throws.
RefreshLiveSpec ==
  /\ ProviderSpec
  /\ WF_vars(FetchAnswers \/ FetchThrows)
  /\ WF_vars(SleepElapses)
  /\ WF_vars(UpsertSucceeds \/ UpsertThrows)

----------------------------------------------------------------------------
\* ReportBuilder.buildReport: one run of the action

\* No run: the manager and the provider are used on their own.
RunIdle ==
  /\ rPc = "none"
  /\ licensed = {}
  /\ report = <<>>
  /\ providerCalls = <<>>
  /\ cancelled = FALSE

\* The traversal buildReport awaits at each of its places.
TraversalOf(stage) ==
  CASE stage = "orgs" -> "getAllOrganizationsInEnterprise"
    [] stage = "licenses" -> "getConsumedLicenses"
    [] stage = "seats" -> "getCopilotSeats"

\* `for (const user of users)`: the user the loop body stands at, users
\* taken in the order of their logins.
Reported == {report[i] : i \in 1 .. Len(report)}
LoopUser == CHOOSE k \in licensed \ Reported :
              \A j \in licensed \ Reported : k <= j

\* The loop goes round, or buildReport writes the CSV and returns.
LoopOrDone(done) == IF licensed \subseteq done THEN "done" ELSE "teams"

\* buildReport awaits getAllOrganizationsInEnterprise, getConsumedLicenses
\* or getCopilotSeats.
RunCall ==
  /\ rPc \in {"orgs", "licenses", "seats"}
  /\ Call(TraversalOf(rPc))

\* The awaited traversal gives its list, or throws and buildReport rejects.
RunTraversalReturns ==
  /\ rPc \in {"orgs", "licenses", "seats"}
  /\ tPc \in {"done", "failed"}
  /\ ResetTraversal
  /\ IF result.kind = "error"
       THEN /\ rPc' = "rejected"
            /\ UNCHANGED <<licensed, report, providerCalls>>
       ELSE CASE rPc = "orgs" ->
                   /\ rPc' = "licenses"
                   /\ UNCHANGED <<licensed, report, providerCalls>>
              [] rPc = "licenses" ->
                   /\ rPc' = "initialize"
                   /\ licensed' \in SUBSET Logins
                   /\ UNCHANGED <<report, providerCalls>>
              [] rPc = "seats" ->
                   /\ rPc' = LoopOrDone({})
                   /\ UNCHANGED <<licensed, report, providerCalls>>
  /\ UNCHANGED <<graphql, quota, gvars, uvars, pvars, cancelled>>

\* await this.lastActivityProvider.initialize(users)
RunInitialize ==
  /\ rPc = "initialize"
  /\ Initialize(Listed(licensed))

\* await this.lastActivityProvider.refreshUserData()
RunRefresh ==
  /\ rPc = "refresh"
  /\ RefreshUserData

\* await this.lastActivityProvider.getLastActivityDateForUser(login)
RunLookup ==
  /\ rPc = "lookup"
  /\ Lookup(LoopUser)

\* Variant: the refresh is left out, and the seats and the loop follow
\* initialize.
AfterInitializeSeats == "seats"

\* `await ...initialize(users)` is followed by `await ...refreshUserData()`.
AfterInitialize == "refresh"

\* The awaited provider method resolves and buildReport goes on, or it
\* rejects and buildReport rejects.
RunProviderReturns ==
  /\ rPc \in {"initialize", "refresh", "lookup"}
  /\ pPc = "done"
  /\ ResetProvider
  /\ providerCalls' = Append(providerCalls, op)
  /\ IF pResult.kind = "error"
       THEN /\ rPc' = "rejected"
            /\ UNCHANGED <<licensed, report>>
       ELSE CASE rPc = "initialize" ->
                   /\ rPc' = AfterInitialize
                   /\ UNCHANGED <<licensed, report>>
              [] rPc = "refresh" ->
                   /\ rPc' = "seats"
                   /\ UNCHANGED <<licensed, report>>
              [] rPc = "lookup" ->
                   /\ report' = Append(report, LoopUser)
                   /\ rPc' = LoopOrDone(Reported \cup {LoopUser})
                   /\ UNCHANGED licensed
  /\ UNCHANGED <<graphql, quota, tvars, gvars, uvars, cancelled>>
  /\ UNCHANGED <<provider, tableClient, sliceLen, rateLimitRemaining, loaded,
                 users, store, now, ptimer>>

\* await this.manager.getTeamsForUser(login, ent)
RunTeams ==
  /\ rPc = "teams"
  /\ GetTeamsForUser

\* getTeamsForUser gives its object and the loop body goes on to the lookup.
RunTeamsReturns ==
  /\ rPc = "teams"
  /\ teamsPc = "done"
  /\ ResetTeams
  /\ rPc' = IF teamsResult.kind = "error" THEN "rejected" ELSE "lookup"
  /\ UNCHANGED <<licensed, report, providerCalls>>
  /\ UNCHANGED <<graphql, quota, tvars, gvars, pvars, cancelled>>

\* A run about to start: a manager and a LastActivityProvider just built,
\* with or without a connection string, and a table no run has written to.
RunInit ==
  /\ graphql = FALSE
  /\ quota \in RemainingValues
  /\ TraversalIdle
  /\ GateIdle
  /\ TeamsIdle
  /\ provider = "LastActivityProvider"
  /\ tableClient \in BOOLEAN
  /\ sliceLen = MaxBudget
  /\ rateLimitRemaining = AuditAssumed
  /\ loaded = FALSE
  /\ users = <<>>
  /\ store = [k \in Logins |-> NoEntity]
  /\ now = StartTime
  /\ op = "none"
  /\ pPc = "idle"
  /\ key = 0
  /\ pos = 0
  /\ fetched = [data |-> Undefined, rateLimitRemaining |-> Undefined]
  /\ stamp = Undefined
  /\ ptimer = 0
  /\ pResult = [kind |-> "none", data |-> Undefined, lastChecked |-> Undefined]
  /\ atStart = <<>>
  /\ fetchLog = <<>>
  /\ upsertLog = <<>>
  /\ failLog = <<>>
  /\ warnings = 0
  /\ pErrors = 0
  /\ insertLog = <<>>
  /\ failedCall = "none"
  /\ rPc = "orgs"
  /\ licensed = {}
  /\ report = <<>>
  /\ providerCalls = <<>>
  /\ cancelled = FALSE

\* The steps of a run.
RunNext ==
  \/ RunCall
  \/ PageArrives
  \/ PageThrows
  \/ GateReturns
  \/ RunTraversalReturns
  \/ ProbeAnswers
  \/ ProbeThrows
  \/ BackoffElapses
  \/ QuotaChanges
  \/ RunInitialize
  \/ RunRefresh
  \/ RunLookup
  \/ FetchAnswers
  \/ SleepElapses
  \/ FetchThrows
  \/ UpsertSucceeds
  \/ UpsertThrows
  \/ RunProviderReturns
  \/ RunTeams
  \/ OrgPageArrives
  \/ OrgPageThrows
  \/ MoreTeamsReturns
  \/ RunTeamsReturns

RunSpec == RunInit /\ [][RunNext]_vars

----------------------------------------------------------------------------

Init ==
  /\ graphql = FALSE
  /\ quota \in RemainingValues
  /\ TraversalIdle
  /\ GateIdle
  /\ TeamsIdle
  /\ ProviderIdle
  /\ RunIdle

Next ==
  \/ \E f \in Kinds : Call(f)
  \/ PageArrives
  \/ PageThrows
  \/ GateReturns
  \/ Return
  \/ ProbeAnswers
  \/ ProbeThrows
  \/ BackoffElapses
  \/ QuotaChanges

Spec == Init /\ [][Next]_vars

\* The event loop delivers what is pending: a timer that was set fires, a
\* request that was sent is answered or throws.
LiveSpec ==
  /\ Spec
  /\ WF_vars(BackoffElapses)
  /\ WF_vars(ProbeAnswers \/ ProbeThrows)

\* The process is told to stop: the workflow is cancelled, its deadline has
\* passed.  Nothing in the gate, the manager or the providers reads it.
Cancel ==
  /\ ~cancelled
  /\ cancelled' = TRUE
  /\ UNCHANGED <<graphql, quota, tvars, gvars, uvars, pvars, rvars>>

\* The manager's calls in a process that may be told to stop.
CancelNext ==
  \/ \E f \in Kinds : Call(f)
  \/ PageArrives
  \/ PageThrows
  \/ GateReturns
  \/ Return
  \/ ProbeAnswers
  \/ ProbeThrows
  \/ BackoffElapses
  \/ QuotaChanges
  \/ Cancel

CancelSpec ==
  /\ Init
  /\ [][CancelNext]_vars
  /\ WF_vars(BackoffElapses)
  /\ WF_vars(ProbeAnswers \/ ProbeThrows)

\* The steps of a run that asks for one user's teams after another.
TeamsNext ==
  \/ GetTeamsForUser
  \/ TeamsInitReturns
  \/ OrgPageArrives
  \/ OrgPageThrows
  \/ MoreTeamsReturns
  \/ TeamsReturn
  \/ ProbeAnswers
  \/ ProbeThrows
  \/ BackoffElapses
  \/ QuotaChanges

TeamsSpec == Init /\ [][TeamsNext]_vars

----------------------------------------------------------------------------
\* getLast50PagesOfAuditLog

AuditPerPage == 100  \* `per_page=100`, `events.length < 100`
AuditLow == 10       \* `remaining < 10`
DefaultPages == 50   \* `pages = 50`

\* The arguments the function is called with: a page count, or none.
AuditArgs == (1 .. MaxAuditPages) \cup {Undefined}

\* What the remote may answer to an audit-log request: so many events, some
\* of them by the actor or none, and the remaining-call header, which may
\* be absent.
AuditResponses ==
  { pg \in [length : {0, AuditPerPage - 1, AuditPerPage},
            actor : BOOLEAN,
            remaining : RemainingValues \cup {NaN}] :
      pg.length = 0 => ~pg.actor }

\* const userDict = {}
NoDict == [kind |-> "dict", actor |-> Undefined]

\* The inner for loop: the actor's entry is the date of the first event of
\* theirs seen; the events of page p are dated p.
AddEvents(userDict, p, pg) ==
  IF pg.actor /\ userDict.actor = Undefined
    THEN [userDict EXCEPT !.actor = p]
    ELSE userDict

\* The for statement's condition on its variable `page`.
MorePages(p, n) == p < n

\* The for statement with `page` = p: the next request is sent, or the loop
\* is over and userDict is returned.
AuditLoop(p, n, userDict) ==
  /\ tPc' = IF MorePages(p, n) THEN "fetch" ELSE "done"
  /\ result' = IF MorePages(p, n)
                 THEN NoResult
                 ELSE [kind |-> "value", value |-> userDict]

\* The function is called.  init runs first, as for every traversal.
GetLast50PagesOfAuditLog(arg) ==
  /\ tPc = "idle"
  /\ fn' = "getLast50PagesOfAuditLog"
  /\ pages' = IF arg = Undefined THEN DefaultPages ELSE arg
  /\ all' = NoDict
  /\ page_check_done' = FALSE
  /\ pageNo' = 0
  /\ page' = NoPage
  /\ first' = NoPage
  /\ anyTotal' = FALSE
  /\ served' = <<>>
  /\ errorsLogged' = 0
  /\ IF graphql
       THEN /\ AuditLoop(1, pages', NoDict)
            /\ gateLog' = <<>>
            /\ UNCHANGED <<graphql, gvars>>
       ELSE /\ graphql' = TRUE
            /\ InvokeGate(InitCalls, NoArg)
            /\ gateLog' = <<[by |-> "init", callsNeeded |-> InitCalls,
                             total |-> Undefined, page |-> 0, items |-> 0]>>
            /\ tPc' = "gate"
            /\ result' = NoResult
  /\ UNCHANGED quota
  /\ UNCHANGED others

\* init has returned: the for statement starts with page = 1.
AuditInitReturns ==
  /\ fn = "getLast50PagesOfAuditLog"
  /\ tPc = "gate"
  /\ gPc = "returned"
  /\ ResetGate
  /\ AuditLoop(1, pages, all)
  /\ UNCHANGED <<graphql, quota, fn, all, page_check_done, pageNo, page, first,
                 anyTotal, served, errorsLogged, gateLog, pages>>
  /\ UNCHANGED others

\* The page requested arrives and the loop body runs up to its next await:
\* a short page ends the loop, a low header starts the sleep, otherwise
\* page++ and the condition is tested again.
AuditPageArrives ==
  /\ fn = "getLast50PagesOfAuditLog"
  /\ tPc = "fetch"
  /\ \E pg \in AuditResponses :
       /\ served' = Append(served, [page |-> pageNo + 1, length |-> pg.length])
       /\ pageNo' = pageNo + 1
       /\ all' = AddEvents(all, pageNo + 1, pg)
       /\ IF pg.length < AuditPerPage
            THEN /\ tPc' = "done"
                 /\ result' = [kind |-> "value", value |-> all']
            ELSE IF JsLess(pg.remaining, AuditLow)
                   THEN /\ tPc' = "sleep"
                        /\ result' = NoResult
                   ELSE AuditLoop(pageNo + 2, pages, all')
  /\ UNCHANGED <<graphql, quota, fn, page_check_done, page, first, anyTotal,
                 errorsLogged, gateLog, pages, gvars>>
  /\ UNCHANGED others

\* The 60 seconds are over: page++ and the condition is tested again.
AuditSleepElapses ==
  /\ fn = "getLast50PagesOfAuditLog"
  /\ tPc = "sleep"
  /\ AuditLoop(pageNo + 1, pages, all)
  /\ UNCHANGED <<graphql, quota, fn, all, page_check_done, pageNo, page, first,
                 anyTotal, served, errorsLogged, gateLog, pages, gvars>>
  /\ UNCHANGED others

\* The steps of a process that reads the audit log again and again.  The
\* request that throws and the return to the caller are those of every
\* traversal.
AuditNext ==
  \/ \E arg \in AuditArgs : GetLast50PagesOfAuditLog(arg)
  \/ AuditInitReturns
  \/ AuditPageArrives
  \/ PageThrows
  \/ AuditSleepElapses
  \/ Return
  \/ ProbeAnswers
  \/ ProbeThrows
  \/ BackoffElapses
  \/ QuotaChanges

AuditSpec == Init /\ [][AuditNext]_vars

----------------------------------------------------------------------------
\* Properties of the quota gate

\* The gate was called without initialHeaders and for an integer number of
\* calls, the domain of its contract.
PlainGate == gPc # "idle" /\ ~Truthy(initialHeaders) /\ callsNeeded # NaN

\* The step in which a probe is answered, or throws.
ProbeStep == gPc = "probe" /\ gPc' # "probe"

C2_SnapshotCountDecides ==
  (gPc = "returned" /\ Truthy(initialHeaders) /\ callsNeeded # NaN) =>
     IF initialHeaders.remaining >= callsNeeded
       THEN probes = 0 /\ sleeps = 0
       ELSE sleeps >= 1 /\ probes >= 1 /\ remaining >= callsNeeded

Waiting == PlainGate /\ gPc \in {"probe", "sleep"}

\* C4: the gate has no retry cap: however many probes have been answered,
\* a probe below callsNeeded leaves the gate waiting; and the gate does not
\* wait for ever once every probe is answered with a count >= callsNeeded.
C4_NoRetryCap ==
  /\ [](PlainGate /\ probes >= 1 /\ remaining < callsNeeded => Waiting)
  /\ (<>[](Waiting => quota >= callsNeeded /\ ~probeFailed)) => []<>(~Waiting)

\* As many low probes as the counters can tell apart, and the gate sleeps.
C4_Witness ==
  /\ Waiting
  /\ gPc = "sleep"
  /\ probes = MaxProbes
  /\ sleeps = MaxProbes
  /\ remaining < callsNeeded

----------------------------------------------------------------------------
\* Properties of the paginated traversals

\* The gate invocations made by the loop of the traversal in progress;
\* the one #init makes on a fresh manager is not among them.
LoopCalls == SelectSeq(gateLog, LAMBDA c : c.by = "loop")

\* ceil(t / PageSize), from its definition.
CeilPages(t) == CHOOSE n \in 0 .. t : n * PageSize >= t /\ (n - 1) * PageSize < t

\* The loop's gate call has not yet returned to the loop.
LoopGatePending ==
  /\ gPc # "idle"
  /\ gateLog # <<>>
  /\ gateLog[Len(gateLog)].by = "loop"

\* C5: in every traversal the loop invokes the gate at most once, however
\* many pages there are; when the first page reports more pages and a
\* total count, it invokes it exactly once, on that page, with
\* callsNeeded = ceil(totalCount / 100) + 10 (14 for a total of 301).
C5_OneCheckPerTraversal ==
  /\ Len(LoopCalls) <= 1
  /\ (pageNo >= 1 /\ first.hasNext /\ first.total # Undefined) =>
        /\ Len(LoopCalls) = 1
        /\ LoopCalls[1].page = 1
        /\ LoopCalls[1].callsNeeded = CeilPages(first.total) + Margin
        /\ first.total = 301 => LoopCalls[1].callsNeeded = 14

\* A traversal of MaxPages pages of 301 reported items made one check.
C5_Witness ==
  /\ tPc = "done"
  /\ pageNo = MaxPages
  /\ first.total = 301
  /\ Len(LoopCalls) = 1
  /\ LoopCalls[1].callsNeeded = 14

\* C6: the loop's check is issued once the page that triggers it has been
\* received and its items collected, and no page is requested or received
\* until the gate has returned.
C6_CheckBetweenPages ==
  /\ tPc = "fetch" => gPc = "idle"
  /\ LoopGatePending =>
        /\ tPc = "gate"
        /\ pageNo >= 1
        /\ pageNo = gateLog[Len(gateLog)].page
        /\ Len(served) = pageNo
        /\ all = Concat(served)
        /\ gateLog[Len(gateLog)].items = Len(all)

\* The loop stands at the gate, which sleeps, after a first page with items
\* that announced a second page.
C6_Witness ==
  /\ LoopGatePending
  /\ gPc = "sleep"
  /\ pageNo = 1
  /\ page.hasNext
  /\ Len(all) = MaxItems

\* C7: a traversal whose first page reports no further pages (hasNextPage
\* false, or a total count not above the page size) never invokes the gate
\* from its loop.
C7_NoCheckOnSinglePage ==
  (pageNo >= 1 /\ (~first.hasNext \/
                   (first.total # Undefined /\ first.total <= PageSize))) =>
     LoopCalls = <<>>

\* A REST traversal ended after one page that reported exactly PageSize.
C7_Witness ==
  /\ tPc = "done"
  /\ fn \in Rest
  /\ pageNo = 1
  /\ first.total = PageSize
  /\ LoopCalls = <<>>
  /\ Len(all) = MaxItems

\* C8 as stated: when the first page reports no total count, the gate is
\* not invoked at all during the traversal, and all pages are fetched.
C8_SkippedWithoutTotal ==
  (pageNo >= 1 /\ first.total = Undefined) =>
     /\ LoopCalls = <<>>
     /\ tPc = "done" => (~page.hasNext /\ result.value = Concat(served))

\* C8, amended: a REST traversal in which no page reports a total count
\* never invokes the gate; a GraphQL traversal whose first page reports
\* more pages but no total count invokes it exactly once, for NaN calls, and
\* that gate call never sleeps: it returns on its first probe; either way
\* every page is fetched.
C8_WithoutTotal ==
  /\ (fn \in Rest /\ ~anyTotal) => LoopCalls = <<>>
  /\ (fn \in GraphQL /\ pageNo >= 1 /\ first.total = Undefined /\ first.hasNext) =>
        /\ Len(LoopCalls) = 1
        /\ LoopCalls[1].page = 1
        /\ LoopCalls[1].callsNeeded = NaN
  /\ (LoopGatePending /\ callsNeeded = NaN) =>
        /\ sleeps = 0
        /\ gPc = "returned" => probes = 1
  /\ (tPc = "done" /\ first.total = Undefined) =>
        (~page.hasNext /\ result.value = Concat(served))

\* A GraphQL traversal of several pages, the first without a total count,
\* has ended with one gate call made.
C8_Witness ==
  /\ tPc = "done"
  /\ fn \in GraphQL
  /\ first.total = Undefined
  /\ pageNo >= 2
  /\ Len(LoopCalls) = 1
  /\ LoopCalls[1].callsNeeded = NaN

\* The items of a list are pairwise distinct.
NoDuplicates(list) == \A i, j \in 1 .. Len(list) : list[i] = list[j] => i = j

C10_FetchErrorRethrown ==
  /\ [](tPc = "failed" =>
          /\ errorsLogged = 1
          /\ result.kind = "error"
          /\ result.value = <<>>)
  /\ [](tPc # "failed" => errorsLogged = 0)
  /\ [](result.kind = "value" => tPc = "done")
  /\ [][(tPc = "fetch" /\ pageNo' = pageNo /\ tPc' # "fetch") =>
          (tPc' = "failed" /\ errorsLogged' = errorsLogged + 1)]_vars

\* The second page failed after the first had given items.
C10_Witness ==
  /\ tPc = "failed"
  /\ pageNo = 1
  /\ all # <<>>
  /\ result.kind = "error"

----------------------------------------------------------------------------
\* C11: getTeamsForUser never throws.  When a request made for it has
\* thrown, be it for a page of organizations or inside the awaited
\* getMoreTeamsForUser, the error is logged and the caller gets an object
\* whose orgs list is empty, whatever had been collected.
C11_TeamsNeverThrows ==
  /\ teamsResult.kind \in {"none", "value"}
  /\ teamsPc = "done" => teamsResult.kind = "value"
  /\ teamsPc = "done" /\ fetchFailed =>
       /\ teamsResult = [kind |-> "value", value |-> <<>>]
       /\ teamsErrors >= 1

\* The continuation of an organization's teams fails after other
\* organizations were collected.
C11_Witness ==
  /\ teamsPc = "done"
  /\ fetchFailed
  /\ nodes # <<>>
  /\ userWithOrgs # <<>>
  /\ teamsResult.value = <<>>

----------------------------------------------------------------------------
\* lastUpdated of login k as the call in progress found it.
StartOf(k) == atStart[Find(atStart, k)].lastUpdated

\* a is no later than b, null being before every time.
NoLater(a, b) == a = Null \/ (b # Null /\ a <= b)

\* C12: within one refreshUserData pass the remote is asked for the users
\* in non-decreasing order of the lastUpdated they had when the pass
\* started, a null lastUpdated coming before every timestamp.
C12_FetchesOldestFirst ==
  op = "refresh" =>
    \A i, j \in 1 .. Len(fetchLog) :
      i < j => NoLater(StartOf(fetchLog[i]), StartOf(fetchLog[j]))

\* A pass has asked for a never-refreshed user and then for one with a
\* timestamp, though the list held them the other way round.
C12_Witness ==
  /\ op = "refresh"
  /\ Len(fetchLog) = 2
  /\ StartOf(fetchLog[1]) = Null
  /\ StartOf(fetchLog[2]) # Null
  /\ atStart[1].rowKey = fetchLog[2]

----------------------------------------------------------------------------
\* The records the call found that were strictly staler than login k.
StalerThan(k) ==
  {i \in 1 .. Len(atStart) :
     /\ NoLater(atStart[i].lastUpdated, StartOf(k))
     /\ atStart[i].lastUpdated # StartOf(k)}

\* Login k was among the n stalest records the call found.
AmongStalest(k, n) == Some(atStart, k) /\ Cardinality(StalerThan(k)) < n

\* The smaller of two numbers.
Min(a, b) == IF a < b THEN a ELSE b

\* C13: one refreshUserData pass asks the remote only for records that were
\* among the K stalest when it started, K being the slice length: at most
\* min(K, number of records) fetches and as many upserts, at most one of
\* each per login, and a record outside the K stalest is left as it was.
C13_OnlyTheStalest ==
  op = "refresh" =>
    /\ Len(fetchLog) <= Min(sliceLen, Len(atStart))
    /\ Len(upsertLog) <= Min(sliceLen, Len(atStart))
    /\ NoDuplicates(fetchLog)
    /\ NoDuplicates(upsertLog)
    /\ \A i \in 1 .. Len(fetchLog) : AmongStalest(fetchLog[i], sliceLen)
    /\ \A i \in 1 .. Len(upsertLog) : AmongStalest(upsertLog[i], sliceLen)
    /\ \A i \in 1 .. Len(users) :
         ~AmongStalest(users[i].rowKey, sliceLen) =>
           /\ users[i] = atStart[Find(atStart, users[i].rowKey)]
           /\ store[users[i].rowKey].lastUpdated = users[i].lastUpdated

\* A pass over more records than the slice takes has refreshed the slice
\* and ended, a fresher record left alone.
C13_Witness ==
  /\ op = "refresh"
  /\ pPc = "done"
  /\ Len(atStart) > sliceLen
  /\ Len(upsertLog) = sliceLen
  /\ \E i \in 1 .. Len(users) : ~AmongStalest(users[i].rowKey, sliceLen)

----------------------------------------------------------------------------
\* The pass has just refreshed the user at `pos`, and the response for
\* that user reported fewer than Floor calls remaining.
LowAfterRefresh ==
  /\ op = "refresh"
  /\ upsertLog # <<>>
  /\ upsertLog[Len(upsertLog)] = key
  /\ fetchLog[Len(fetchLog)] = key
  /\ JsLess(fetched.rateLimitRemaining, Floor)

----------------------------------------------------------------------------
----------------------------------------------------------------------------
\* A point lookup is entered.
LookupStarts == op = "none" /\ op' = "lookup"

\* C16: with no cache configured, once the tracked remaining count is
\* below 5 it stays where it is, no request to the remote is pending or
\* sent, and every point lookup entered returns the null result at once,
\* with a warning and without throwing.
C16_ExhaustedForGood ==
  /\ [](~tableClient /\ JsLess(rateLimitRemaining, Floor) =>
          /\ pPc \in {"idle", "done"}
          /\ pResult.kind # "error")
  /\ [][(~tableClient /\ JsLess(rateLimitRemaining, Floor)) =>
          /\ rateLimitRemaining' = rateLimitRemaining
          /\ fetchLog' \in {fetchLog, <<>>}]_vars
  /\ [][(~tableClient /\ JsLess(rateLimitRemaining, Floor) /\ LookupStarts) =>
          /\ pPc' = "done"
          /\ pResult' = NullResult
          /\ warnings' = warnings + 1]_vars

\* A lookup entered with the count exhausted has returned the null result.
C16_Witness ==
  /\ ~tableClient
  /\ JsLess(rateLimitRemaining, Floor)
  /\ op = "lookup"
  /\ pPc = "done"
  /\ fetchLog = <<>>
  /\ pResult = NullResult

----------------------------------------------------------------------------
\* C17: with no cache configured, a request to the remote that throws
\* during a point lookup is logged with core.error and the lookup returns
\* the null result; it does not throw, and the tracked remaining count is
\* what it was before the call.
C17_LookupFailureGivesNull ==
  /\ [](~tableClient /\ op = "lookup" => pResult.kind # "error")
  /\ [][(~tableClient /\ op = "lookup" /\ Len(failLog') > Len(failLog)) =>
          /\ pErrors' = pErrors + 1
          /\ pPc' = "done"
          /\ pResult' = NullResult
          /\ rateLimitRemaining' = rateLimitRemaining]_vars

\* A lookup without cache whose request threw has returned.
C17_Witness ==
  /\ ~tableClient
  /\ op = "lookup"
  /\ pPc = "done"
  /\ failLog = <<key>>
  /\ pErrors = 1
  /\ pResult = NullResult

----------------------------------------------------------------------------
\* C18: with no cache configured and a tracked remaining count of 5 or
\* more, a point lookup sends exactly one request to the remote; when it
\* is answered the lookup returns the payload of the answer and the
\* tracked count becomes the remaining count the answer reported.
C18_LookupAsksOnce ==
  /\ [][(~tableClient /\ rateLimitRemaining >= Floor /\ LookupStarts) =>
          /\ pPc' = "fetch"
          /\ fetchLog' = <<key'>>]_vars
  /\ [](~tableClient /\ op = "lookup" => Len(fetchLog) <= 1)
  /\ [][(~tableClient /\ op = "lookup" /\ pPc = "fetch"
           /\ failLog' = failLog) =>
          /\ pPc' = "done"
          /\ pResult'.kind = "value"
          /\ pResult'.data = fetched'.data
          /\ pResult'.data \in Payloads(now')
          /\ rateLimitRemaining' = fetched'.rateLimitRemaining
          /\ \E q \in ResponseRemaining : rateLimitRemaining' = q
          /\ fetchLog' = fetchLog]_vars

\* A lookup without cache has been answered and the tracked count has
\* changed to what the answer reported.
C18_Witness ==
  /\ ~tableClient
  /\ op = "lookup"
  /\ pPc = "done"
  /\ fetchLog = <<key>>
  /\ failLog = <<>>
  /\ pResult.data = fetched.data
  /\ rateLimitRemaining = fetched.rateLimitRemaining
  /\ rateLimitRemaining = LowWater

----------------------------------------------------------------------------
\* C19: with a cache configured, a point lookup for a login that
\* this.users does not hold returns the null result after one warning; it
\* sends no request to the remote and writes nothing to the table or to
\* this.users.
C19_MissIsNotFetched ==
  /\ [][(tableClient /\ LookupStarts /\ ~Some(users, key')) =>
          /\ pPc' = "done"
          /\ pResult' = NullResult
          /\ warnings' = warnings + 1
          /\ fetchLog' = <<>>
          /\ store' = store
          /\ users' = users]_vars
  /\ [](tableClient /\ op = "lookup" /\ ~Some(atStart, key) =>
          /\ pPc = "done"
          /\ fetchLog = <<>>
          /\ upsertLog = <<>>
          /\ users = atStart)

\* A lookup has missed in a list that holds another login.
C19_Witness ==
  /\ tableClient
  /\ op = "lookup"
  /\ pPc = "done"
  /\ users # <<>>
  /\ ~Some(users, key)
  /\ pResult = NullResult
  /\ warnings = 1

----------------------------------------------------------------------------
\* C20: with a cache configured, getLastActivityDateForUser for a login
\* that this.users holds returns that record's lastActivityDate and, as
\* lastChecked, its lastUpdated, stale or not, and changes nothing else:
\* no request to the remote, no write to the table, no change of
\* this.users or of the tracked count.
C20_CachedAsIs ==
  /\ [][(/\ tableClient
          /\ provider = "LastActivityProvider"
          /\ LookupStarts
          /\ Some(users, key')) =>
          /\ pPc' = "done"
          /\ pResult' = [kind |-> "value",
                         data |-> users[Find(users, key')].data,
                         lastChecked |-> users[Find(users, key')].lastUpdated]
          /\ fetchLog' = <<>>
          /\ warnings' = warnings
          /\ <<users, store, rateLimitRemaining, now>>' =
               <<users, store, rateLimitRemaining, now>>]_vars
  /\ [](tableClient /\ provider = "LastActivityProvider" /\ op = "lookup" =>
          /\ pPc = "done"
          /\ fetchLog = <<>>
          /\ upsertLog = <<>>
          /\ users = atStart)

\* A record refreshed more than three days ago has been returned as it is.
C20_Witness ==
  /\ tableClient
  /\ provider = "LastActivityProvider"
  /\ op = "lookup"
  /\ pPc = "done"
  /\ Some(users, key)
  /\ users[Find(users, key)].lastUpdated # Null
  /\ DiffDays(users[Find(users, key)].lastUpdated, now) > FreshDays
  /\ pResult.lastChecked = users[Find(users, key)].lastUpdated
  /\ pResult.data = users[Find(users, key)].data

----------------------------------------------------------------------------
\* C21.  getUserData with a cache, for a login this.users holds: when the
\* record is stale and the tracked count is at least 5, the lookup sends one
\* request for that login; the answer's count becomes the tracked count;
\* the one upsert that follows writes the entity, the record in this.users
\* takes the entity's lastUpdated and payload, and the payload just fetched
\* is returned.  When the record is fresh, the lookup returns at once with
\* nothing fetched and nothing written.

SelfHealing == provider = "UserAccountProvider" /\ tableClient

C21_StaleIsFetchedOnce ==
  [][SelfHealing =>
       /\ \A k \in Logins :
            (LookupStarts /\ key' = k /\ Some(users, k)) =>
              LET user == users[Find(users, k)]
                  stale == NeedToUpdate(user.lastUpdated, now)
              IN /\ (stale /\ rateLimitRemaining >= Floor) =>
                      /\ pPc' = "fetch"
                      /\ fetchLog' = <<k>>
                      /\ upsertLog' = <<>>
                 /\ ~stale =>
                      /\ pPc' = "done"
                      /\ fetchLog' = <<>>
                      /\ upsertLog' = <<>>
                      /\ store' = store
                      /\ users' = users
       /\ (op = "lookup" /\ pPc = "fetch" /\ pPc' = "upsert") =>
            /\ rateLimitRemaining' = fetched'.rateLimitRemaining
            /\ fetchLog' = <<key>>
            /\ upsertLog' = <<>>
       /\ (op = "lookup" /\ pPc = "upsert" /\ pResult'.kind = "value") =>
            /\ fetchLog' = <<key>>
            /\ upsertLog' = <<key>>
            /\ store'[key].lastUpdated = now
            /\ store'[key].data = fetched.data
            /\ users'[Find(users', key)].lastUpdated = store'[key].lastUpdated
            /\ users'[Find(users', key)].data = store'[key].data
            /\ rateLimitRemaining' = fetched.rateLimitRemaining
            /\ pResult'.data = fetched.data
            /\ pPc' = "done"
  ]_vars

\* A stale record has been fetched and written again by a lookup, and the
\* lookup has returned the payload it fetched.
C21_Witness ==
  /\ SelfHealing
  /\ op = "lookup"
  /\ pPc = "done"
  /\ pResult.kind = "value"
  /\ upsertLog = <<key>>
  /\ Some(atStart, key)
  /\ atStart[Find(atStart, key)].lastUpdated \in 1 .. MaxTime
  /\ users[Find(users, key)].lastUpdated > atStart[Find(atStart, key)].lastUpdated
  /\ pResult.data = users[Find(users, key)].data

----------------------------------------------------------------------------
\* C22.  A record whose lastUpdated is null is judged stale at every time of
\* the clock: getUserData never returns it as fresh, it asks for the login
\* when the tracked count allows it and otherwise warns and returns the
\* record as it is.

NeverUpdated(k) == Some(users, k) /\ users[Find(users, k)].lastUpdated = Null

C22_NeverUpdatedIsStale ==
  [][\A k \in Logins :
       (SelfHealing /\ LookupStarts /\ key' = k /\ NeverUpdated(k)) =>
         /\ \A t \in Times : NeedToUpdate(Null, t)
         /\ IF rateLimitRemaining >= Floor
              THEN pPc' = "fetch" /\ fetchLog' = <<k>>
              ELSE pPc' = "done" /\ warnings' = warnings + 1
  ]_vars

\* A lookup has asked for a login whose record was never updated.
C22_Witness ==
  /\ SelfHealing
  /\ op = "lookup"
  /\ pPc = "fetch"
  /\ NeverUpdated(key)
  /\ fetchLog = <<key>>

----------------------------------------------------------------------------
\* C23.  A record with a lastUpdated is stale exactly when the time elapsed
\* since then, in days and rounded up, is above 3: getUserData returns it as
\* fresh when no more than 3 days have elapsed, exactly 3 days included, and
\* judges it stale when anything above 3 days has, one millisecond included.

Window == FreshDays * DayMs

Elapsed(k) == Instant(now) - Instant(users[Find(users, k)].lastUpdated)

Updated(k) == Some(users, k) /\ users[Find(users, k)].lastUpdated # Null

ReturnsFresh == pPc' = "done" /\ warnings' = warnings /\ fetchLog' = <<>>

C23_StaleAboveThreeDays ==
  [][\A k \in Logins :
       (SelfHealing /\ LookupStarts /\ key' = k /\ Updated(k)) =>
         /\ Elapsed(k) >= 0
         /\ ReturnsFresh <=> Elapsed(k) <= Window
         /\ Elapsed(k) = Window => ReturnsFresh
         /\ Elapsed(k) = Window + 1 => ~ReturnsFresh
         /\ \A a, b \in Times :
              a <= b => (NeedToUpdate(a, b) <=> Instant(b) - Instant(a) > Window)
  ]_vars

\* A lookup has judged a record stale that was one millisecond more than
\* 3 days old.
C23_Witness ==
  /\ SelfHealing
  /\ op = "lookup"
  /\ pPc = "fetch"
  /\ Updated(key)
  /\ Elapsed(key) = Window + 1

----------------------------------------------------------------------------
\* a step that is a call of initialize on a provider with a cache
InitializeStep == tableClient /\ pPc = "idle" /\ op' = "initialize"

\* C24.  initialize run again with the same logins creates nothing: a
\* successful initialize leaves an entity under every login given, no step
\* removes an entity, and an initialize that finds an entity under every
\* login given submits no bulk insert and leaves the table as it is; no
\* initialize changes an entity the table already holds, and the list it
\* loads has one record for a row key.  (A => B is written B \/ ~A where A
\* is the step being initialize on the logins given.)

Present(st, k) == st[k] # NoEntity

C24_InitializeIsIdempotent ==
  [][/\ \A k \in Logins : Present(store, k) => Present(store', k)
     /\ InitializeStep =>
          /\ \A k \in Logins : Present(store, k) => store'[k] = store[k]
          /\ \A given \in AllUsersLists :
               (\A k \in Range(given) : Present(store, k)) =>
                 \/ /\ store' = store
                    /\ insertLog' = <<>>
                    /\ failedCall' # "bulkInsert"
                 \/ ~Initialize(given)
     /\ (InitializeStep /\ failedCall' = "none") =>
          /\ \A given \in AllUsersLists :
               \/ \A k \in Range(given) : Present(store', k)
               \/ ~Initialize(given)
          /\ \A k \in Logins : Present(store', k) <=> Some(users', k)
          /\ \A i, j \in 1 .. Len(users') :
               users'[i].rowKey = users'[j].rowKey => i = j
  ]_vars

\* initialize has run on a list an earlier initialize loaded, found every
\* entity in place and created nothing.
C24_Witness ==
  /\ tableClient
  /\ op = "initialize"
  /\ pPc = "done"
  /\ pResult.kind = "value"
  /\ Len(atStart) = MaxUsers
  /\ users = atStart
  /\ insertLog = <<>>
  /\ \E k \in Logins : store[k] = EmptyEntity

----------------------------------------------------------------------------
\* C25.  No transaction bulkInsert submits holds more entities than the
\* table takes in one transaction, however many logins are missing.

C25_BatchesWithinLimit ==
  \A i \in 1 .. Len(insertLog) : Len(insertLog[i]) <= MaxBatch

----------------------------------------------------------------------------
\* C26.  When the bulk insert of the missing logins fails, initialize
\* rejects, buildReport rejects with it, and from then on the run calls
\* nothing: no refreshUserData, no lookup, no traversal.

BulkInsertFailed == op = "initialize" /\ pPc = "done" /\ failedCall = "bulkInsert"

NothingCalled == op = "none" /\ fn = "none" /\ teamsPc = "idle" /\ gPc = "idle"

C26_BulkInsertFailureStopsRun ==
  [][/\ BulkInsertFailed =>
          /\ pResult.kind = "error"
          /\ rPc = "initialize"
          /\ rPc' \in {"initialize", "rejected"}
          /\ op' \in {"initialize", "none"}
     /\ rPc = "rejected" => (NothingCalled /\ NothingCalled' /\ rPc' = "rejected")
  ]_vars

\* A run has been rejected after its initialize read the table, found
\* logins missing and failed to insert them.
C26_Witness ==
  /\ rPc = "rejected"
  /\ tableClient
  /\ loaded
  /\ licensed # {}
  /\ \A k \in licensed : store[k] = NoEntity
  /\ users = <<>>

----------------------------------------------------------------------------
\* C27.  When initialize resolves on a provider with a cache, this.users
\* holds a record for every login it was given, and every entity it created
\* is under a login it was given and has lastUpdated null and no payload,
\* in the table and in this.users.

Created(k) == ~Present(store, k) /\ Present(store', k)

C27_AllUsersAccountedFor ==
  [][(InitializeStep /\ pResult'.kind = "value") =>
       /\ \A k \in Logins :
            Created(k) =>
              /\ store'[k].lastUpdated = Null
              /\ store'[k].data = Null
              /\ users'[Find(users', k)].lastUpdated = Null
              /\ users'[Find(users', k)].data = Null
       /\ \A given \in AllUsersLists :
            \/ /\ \A k \in Range(given) : Some(users', k)
               /\ \A k \in Logins : Created(k) => k \in Range(given)
            \/ ~Initialize(given)
  ]_vars

\* initialize has created the entities of the logins it found missing and
\* read them into this.users.
C27_Witness ==
  /\ tableClient
  /\ op = "initialize"
  /\ pPc = "done"
  /\ pResult.kind = "value"
  /\ Len(insertLog) = 1
  /\ \A k \in Range(insertLog[1]) :
       /\ ~Some(atStart, k)
       /\ Some(users, k)
       /\ users[Find(users, k)].lastUpdated = Null

----------------------------------------------------------------------------
\* C28.  The lastUpdated of a login never moves backwards, in the table or
\* in this.users, whatever initialize, refresh and lookups run: an entity
\* once there stays, a successful upsert dates it with the current time,
\* which is no earlier than the date it had, and no step takes a date back
\* to null or to an earlier time.  (A step that is no upsert and leaves
\* the table and this.users as they are satisfies all of it.)

Upserts(k) == pPc = "upsert" /\ key = k /\ Len(upsertLog') > Len(upsertLog)

C28_LastUpdatedNeverGoesBack ==
  [][\/ pPc # "upsert" /\ store' = store /\ users' = users
     \/ \A k \in Logins :
          /\ Present(store, k) =>
               /\ Present(store', k)
               /\ NoLater(store[k].lastUpdated, store'[k].lastUpdated)
          /\ (Some(users, k) /\ Some(users', k)) =>
               NoLater(users[Find(users, k)].lastUpdated,
                       users'[Find(users', k)].lastUpdated)
          /\ Upserts(k) =>
               /\ store'[k].lastUpdated = now
               /\ Present(store, k) => NoLater(store[k].lastUpdated, now)
          /\ ~Upserts(k) /\ Present(store, k) => store'[k] = store[k]
  ]_vars

\* An entity dated by an earlier run has been upserted again and carries a
\* later date.
C28_Witness ==
  \E k \in Logins :
    /\ upsertLog # <<>>
    /\ upsertLog[Len(upsertLog)] = k
    /\ Some(atStart, k)
    /\ atStart[Find(atStart, k)].lastUpdated \in 1 .. StartTime
    /\ store[k].lastUpdated > atStart[Find(atStart, k)].lastUpdated
    /\ users[Find(users, k)].lastUpdated = store[k].lastUpdated

----------------------------------------------------------------------------
\* C29.  During a run at most one call is pending at the remote, and none
\* while the gate sleeps: of the gate's probe or backoff sleep, a traversal's
\* page request, getTeamsForUser's request and the per-user request of the
\* provider, no two are pending together; and buildReport has one call in
\* progress at a time.

Count(b) == IF b THEN 1 ELSE 0

PendingAtRemote ==
  Count(gPc \in {"probe", "sleep"}) + Count(tPc = "fetch")
    + Count(teamsPc \in {"fetch", "more"}) + Count(pPc = "fetch")

CallsInProgress ==
  Count(fn # "none") + Count(teamsPc # "idle") + Count(op # "none")

C29_OneRequestAtATime ==
  /\ PendingAtRemote <= 1
  /\ CallsInProgress <= 1
  /\ rPc \in {"done", "rejected"} => PendingAtRemote = 0

\* The gate sleeps between two pages of a traversal of the run, and
\* nothing else is pending.
C29_Witness ==
  /\ rPc = "orgs"
  /\ tPc = "gate"
  /\ pageNo = 1
  /\ gPc = "sleep"
  /\ PendingAtRemote = 1

----------------------------------------------------------------------------
\* C30.  Once the process has been told to stop, a gate that is probing or
\* sleeping stops waiting: it does not go on until the remote's count has
\* recovered.

GateWaits == gPc \in {"probe", "sleep"}

C30_CancellationEndsTheWait == (cancelled /\ GateWaits) ~> ~GateWaits

----------------------------------------------------------------------------
\* Properties of a run and of the cache, continued

\* n point lookups, one after another.
Lookups(n) == [i \in 1 .. n |-> "lookup"]

\* C31.  In one run of buildReport the provider's methods are awaited in
\* this order: initialize, then refreshUserData once, then the point
\* lookups, one for each user reported.  When initialize is in progress no
\* method has returned before it; when the refresh is in progress only
\* initialize has; when a lookup is in progress initialize and the one
\* refresh have returned and nothing but lookups since; a run that ends has
\* made one lookup for each licensed user after them.
C31_InitializeRefreshThenLookups ==
  /\ op = "initialize" => providerCalls = <<>>
  /\ op = "refresh" => providerCalls = <<"initialize">>
  /\ op = "lookup" =>
       providerCalls = <<"initialize", "refresh">> \o Lookups(Len(report))
  /\ rPc = "done" =>
       providerCalls =
         <<"initialize", "refresh">> \o Lookups(Cardinality(licensed))

\* A run over a cache has ended: its refresh has written an entity and
\* every licensed user has been looked up.
C31_Witness ==
  /\ rPc = "done"
  /\ tableClient
  /\ licensed = Logins
  /\ \E k \in Logins : store[k].lastUpdated \in Times
  /\ Len(providerCalls) = 2 + MaxUsers

----------------------------------------------------------------------------
\* The record of login k in a list, as an entity, or none.
RecordOf(us, k) ==
  IF Some(us, k)
    THEN [lastUpdated |-> us[Find(us, k)].lastUpdated,
          data |-> us[Find(us, k)].data, id |-> us[Find(us, k)].id]
    ELSE NoEntity

\* The step is a fetch or an upsert failing in a refresh or a lookup over
\* a cache.
FailsForKey ==
  /\ tableClient
  /\ op \in {"refresh", "lookup"}
  /\ pPc \in {"fetch", "upsert"}
  /\ failLog' = Append(failLog, key)

\* C32.  A step in which the fetch or the upsert for a key fails, in
\* refreshUserData or in a self-healing lookup, leaves the record of every
\* key in this.users as it was; and a step of a refresh or a lookup that
\* changes a record is a successful upsert for the key fetched, changing
\* that key's record alone.
C32_OnlySuccessMutates ==
  [][/\ FailsForKey =>
          \A k \in Logins : RecordOf(users', k) = RecordOf(users, k)
     /\ op \in {"refresh", "lookup"} =>
          \A k \in Logins :
            RecordOf(users', k) # RecordOf(users, k) =>
              /\ pPc = "upsert"
              /\ k = key
              /\ upsertLog' = Append(upsertLog, k)
  ]_vars

\* A refresh has updated one record and then failed for a key that has a
\* dated record, which is as the pass found it.
C32_Witness ==
  /\ tableClient
  /\ op = "refresh"
  /\ pPc = "done"
  /\ Len(upsertLog) = 1
  /\ Len(failLog) = 1
  /\ RecordOf(users, failLog[1]).lastUpdated \in Times
  /\ RecordOf(users, failLog[1]) = RecordOf(atStart, failLog[1])

----------------------------------------------------------------------------
\* The step is the manager's per-user request being answered.
ResponseArrives ==
  /\ pPc = "fetch"
  /\ pPc' # "fetch"
  /\ failLog' = failLog

\* C33.  A point lookup never waits in the manager's low-count sleep: no
\* timer of the manager is pending during a lookup, and when the response
\* to a lookup's request arrives the lookup goes on whatever count the
\* response reports.  When the response to a request of refreshUserData
\* arrives, the manager sleeps exactly when it reports a count below 25.
C33_LookupsDoNotSleep ==
  [][/\ op' = "lookup" => (pPc' # "sleep" /\ ptimer' = 0)
     /\ ResponseArrives =>
          IF op = "lookup"
            THEN pPc' \in {"upsert", "done"}
            ELSE /\ pPc' = "sleep" <=>
                      JsLess(fetched'.rateLimitRemaining, LowWater)
                 /\ pPc' = "sleep" => ptimer' = SleepMs(provider)
  ]_vars

\* The response to a lookup's request reported a count below 25 and the
\* lookup has gone on to its upsert.
C33_Witness ==
  /\ op = "lookup"
  /\ pPc = "upsert"
  /\ JsLess(fetched.rateLimitRemaining, LowWater)
  /\ ptimer = 0

----------------------------------------------------------------------------
\* The step is a successful upsert of a refresh or a self-healing lookup.
UpsertStep ==
  /\ pPc = "upsert"
  /\ upsertLog' = Append(upsertLog, key)

\* C34.  After a successful upsert, in refreshUserData or in a
\* self-healing lookup, the record of the key in this.users has the
\* lastUpdated and every payload field of the entity just written to the
\* table under that key.
C34_CacheEqualsStore ==
  [][UpsertStep => RecordOf(users', key) = store'[key]]_vars

\* The same, of the fields every one of the three places assigns:
\* lastUpdated and the payload without the user's id and type.
C34_SharedFieldsEqualStore ==
  [][UpsertStep =>
       /\ RecordOf(users', key).lastUpdated = store'[key].lastUpdated
       /\ RecordOf(users', key).data = store'[key].data]_vars

\* The same, of the LastActivityProvider and of the lookups of either
\* provider.
C34_EqualOutsideUserRefresh ==
  [][(UpsertStep /\ (provider = "LastActivityProvider" \/ op = "lookup")) =>
       RecordOf(users', key) = store'[key]]_vars

----------------------------------------------------------------------------
\* C35.  hold_until_rate_limit_success never rejects.  A gate call is
\* waiting for its probe, sleeping, or has returned; a probe request that
\* throws is caught and logged and the call goes on, to its sleep or to
\* its return; and control comes back to the gate's caller from a call
\* that has returned.
C35_GateNeverRejects ==
  /\ [](gPc \in {"idle", "probe", "sleep", "returned"})
  /\ [][/\ (ProbeStep /\ probeFailed') =>
               /\ gPc' \in {"sleep", "returned"}
               /\ remaining' = 0
        /\ (gPc # "idle" /\ gPc' = "idle") => gPc = "returned"
     ]_vars

\* A probe request has thrown and the gate call has returned to a caller
\* that waits for it.
C35_Witness ==
  /\ tPc = "gate"
  /\ gPc = "returned"
  /\ probeFailed

----------------------------------------------------------------------------
\* getUserData(key') is entered on a cache that holds a stale record of
\* the key, while the tracked remaining count is below 5.
StaleLookupWhenLow ==
  /\ provider = "UserAccountProvider"
  /\ tableClient
  /\ LookupStarts
  /\ Some(users, key')
  /\ NeedToUpdate(users[Find(users, key')].lastUpdated, now)
  /\ JsLess(rateLimitRemaining, Floor)

\* C36.  Such a lookup returns at once, with a warning, what the record
\* holds: it sends no request to the remote, writes nothing to the table
\* and leaves this.users and the tracked count as they are.
C36_LowQuotaReturnsCached ==
  [][StaleLookupWhenLow =>
       /\ pPc' = "done"
       /\ pResult'.kind = "value"
       /\ pResult'.data = users[Find(users, key')].data
       /\ warnings' = warnings + 1
       /\ fetchLog' = <<>>
       /\ upsertLog' = <<>>
       /\ store' = store
       /\ users' = users
       /\ rateLimitRemaining' = rateLimitRemaining
  ]_vars

\* A stale record with a payload from an earlier run has been returned by
\* a lookup that found the tracked count below 5.
C36_Witness ==
  /\ provider = "UserAccountProvider"
  /\ tableClient
  /\ op = "lookup"
  /\ pPc = "done"
  /\ JsLess(rateLimitRemaining, Floor)
  /\ Some(users, key)
  /\ NeedToUpdate(users[Find(users, key)].lastUpdated, now)
  /\ users[Find(users, key)].data \in Times
  /\ pResult.data = users[Find(users, key)].data
  /\ fetchLog = <<>>
  /\ warnings = 1

----------------------------------------------------------------------------
\* getUserData has fetched and upserted its key and returns to its caller.
HealedReturn ==
  /\ provider = "UserAccountProvider"
  /\ tableClient
  /\ op = "lookup"
  /\ pPc = "done"
  /\ upsertLog = <<key>>
  /\ pPc' = "idle"

\* getUserData(key') is entered on a record stamped with the present time.
LookupOfJustUpdated ==
  /\ provider = "UserAccountProvider"
  /\ tableClient
  /\ LookupStarts
  /\ Some(users, key')
  /\ users[Find(users, key')].lastUpdated = now

\* C37.  When getUserData returns from a successful refresh of a stale
\* key, the record of that key is stamped with the present time; and a
\* getUserData entered for a key whose record is so stamped finds it fresh:
\* it returns the record's payload at once, sending no request and making
\* no upsert.
C37_SelfHealingIsEffective ==
  [][/\ HealedReturn =>
          /\ Some(users', key)
          /\ users'[Find(users', key)].lastUpdated = now'
          /\ store'[key].lastUpdated = now'
     /\ LookupOfJustUpdated =>
          /\ ~NeedToUpdate(users[Find(users, key')].lastUpdated, now)
          /\ pPc' = "done"
          /\ pResult'.kind = "value"
          /\ pResult'.data = users[Find(users, key')].data
          /\ fetchLog' = <<>>
          /\ upsertLog' = <<>>
          /\ <<users, store>>' = <<users, store>>
  ]_vars

\* A getUserData has returned, without a request, the payload an earlier
\* getUserData fetched at the present time.
C37_Witness ==
  /\ provider = "UserAccountProvider"
  /\ tableClient
  /\ op = "lookup"
  /\ pPc = "done"
  /\ fetchLog = <<>>
  /\ rateLimitRemaining \in {GetRateLimit(q) : q \in ResponseRemaining}
  /\ Some(users, key)
  /\ users[Find(users, key)].lastUpdated = now
  /\ users[Find(users, key)].id = IdOf(now)
  /\ pResult.data \in Payloads(now)

----------------------------------------------------------------------------
\* The times login k is listed.
Occurrences(list, k) == Cardinality({i \in 1 .. Len(list) : list[i] = k})

\* The list the step has given to bulkInsert.
Inserted == insertLog'[Len(insertLog')]

\* C38.  The list initialize gives to bulkInsert holds no login the table
\* had an entity for when initialize read it, holds no login twice, and
\* holds every login of allUsers the table had no entity for, whatever
\* list allUsers is, one that names a login twice included.
C38_MissingKeysOnce ==
  [][(InitializeStep /\ insertLog' # insertLog) =>
       /\ \A k \in Range(Inserted) : ~Present(store, k)
       /\ \A k \in Logins : Occurrences(Inserted, k) <= 1
       /\ \A given \in AllUsersLists :
            \/ \A k \in Range(given) :
                 ~Present(store, k) => Occurrences(Inserted, k) = 1
            \/ ~Initialize(given)
  ]_vars

\* The same, of the lists of allUsers that name no login twice.
C38_OnceWithoutRepeats ==
  [][(InitializeStep /\ insertLog' # insertLog) =>
       /\ \A k \in Range(Inserted) : ~Present(store, k)
       /\ \A given \in AllUsersLists :
            \/ \E k \in Logins : Occurrences(given, k) > 1
            \/ /\ \A k \in Logins : Occurrences(Inserted, k) <= 1
               /\ \A k \in Range(given) :
                    ~Present(store, k) => Occurrences(Inserted, k) = 1
            \/ ~Initialize(given)
  ]_vars

----------------------------------------------------------------------------
\* C39.  refreshUserData terminates.  While a pass is in progress the
\* loop has begun at most min(K, number of records in this.users)
\* iterations, K being the length its selection is cut to, and each has
\* sent one request; and when every request, sleep and upsert pending
\* comes to its end, a pass in progress comes to its end, be it with the
\* selection exhausted or on the low count.
C39_RefreshTerminates ==
  /\ [](op = "refresh" =>
          /\ pos <= Min(sliceLen, Len(users))
          /\ Len(fetchLog) = pos
          /\ Len(upsertLog) + Len(failLog) <= pos)
  /\ (op = "refresh") ~> (op = "refresh" /\ pPc = "done")

\* A pass over more records than its selection takes has ended after as
\* many iterations as the selection has users.
C39_Witness ==
  /\ op = "refresh"
  /\ pPc = "done"
  /\ sliceLen < Len(users)
  /\ pos = sliceLen
  /\ Len(fetchLog) = sliceLen

\* C40: getLast50PagesOfAuditLog(ent, pages) requests the audit-log pages
\* 1, 2, ... in order, and when it returns its dictionary it has fetched
\* exactly `pages` pages (50 when none is given), or fewer and then the last
\* page fetched is the first one that held fewer than 100 events.
C40_FetchesPagesInOrder ==
  fn = "getLast50PagesOfAuditLog" =>
    /\ \A i \in 1 .. Len(served) : served[i].page = i
    /\ \A i \in 1 .. Len(served) - 1 : served[i].length = AuditPerPage
    /\ Len(served) <= pages
    /\ tPc = "done" =>
         \/ Len(served) = pages
         \/ /\ served # <<>>
            /\ served[Len(served)].length < AuditPerPage

\* What the code does: the pages are requested in order, and the loop ends
\* after pages - 1 full pages or at the first short page.
C40_FetchesOnePageLess ==
  fn = "getLast50PagesOfAuditLog" =>
    /\ \A i \in 1 .. Len(served) : served[i].page = i
    /\ \A i \in 1 .. Len(served) - 1 : served[i].length = AuditPerPage
    /\ Len(served) < pages
    /\ tPc = "done" =>
         \/ Len(served) = pages - 1
         \/ /\ served # <<>>
            /\ served[Len(served)].length < AuditPerPage

\* The call buildReport makes, with pages = 1, returns without a request.
C40_NoRequestForOnePage ==
  /\ fn = "getLast50PagesOfAuditLog"
  /\ pages = 1
  /\ tPc = "done"
  /\ served = <<>>
  /\ result = [kind |-> "value", value |-> NoDict]

\* The default call returns after 49 full pages.
C40_DefaultFetches49 ==
  /\ fn = "getLast50PagesOfAuditLog"
  /\ pages = DefaultPages
  /\ tPc = "done"
  /\ Len(served) = DefaultPages - 1
  /\ served[Len(served)].length = AuditPerPage

============================================================================
